---- MODULE Spec2Model ----
(***************************************************************************)
(* agent-infra-spike: the init / plan / approve / apply / parse-outputs    *)
(* workflow and the destroy workflow of agent/terraform_executor.py, the   *)
(* InfrastructureAgent wrappers of agent/infrastructure_agent.py, the      *)
(* DecisionEngine of agent/decision_engine.py with the tables of           *)
(* agent/config.py, and the InfrastructureOrchestrator (execute_capability *)
(* and process_message) with the DatabricksCapability it drives.           *)
(*                                                                         *)
(* Python's None is the empty tuple, a set value v is <<v>>.  A formatted  *)
(* string (f-string) is the sequence of its fragments.                     *)
(***************************************************************************)
EXTENDS Integers, Sequences, FiniteSets, TLC

\* ---------------------------------------------------------------- bounds
\* number of workflow calls made one after another on the same executor
MaxCalls == 2
\* number of unrecognized answers the user gives at one approval gate
MaxPrompts == 2

\* ------------------------------------------------------------- constants
TERRAFORM_TIMEOUT_SECONDS == 1800

None == <<>>
Some(v) == <<v>>

\* ------------------------------------------------------------ data model
\* DeploymentResult(success=s) with every optional field at its default
DeploymentResult(s) ==
  [ success                 |-> s,
    workspace_url           |-> None,
    workspace_id            |-> None,
    resource_group_name     |-> None,
    firewall_ip             |-> None,
    instance_pool_id        |-> None,
    deployment_time_seconds |-> None,
    terraform_outputs       |-> None,
    error_message           |-> None,
    terraform_plan          |-> None ]

\* the five fields of TerraformFiles
TerraformFilesFields ==
  {"main_tf", "variables_tf", "outputs_tf", "terraform_tfvars", "provider_tf"}

\* the TerraformFiles produced by generation g: five distinct texts
TerraformFiles(g) == [f \in TerraformFilesFields |-> <<"hcl", g, f>>]

\* the generations of terraform_files a caller may pass in
Generations == {1, 2}

\* files_to_write of _write_terraform_files, in insertion order
FileOrder ==
  <<"provider.tf", "main.tf", "variables.tf", "outputs.tf", "terraform.tfvars">>

FileNames == {FileOrder[i] : i \in 1..Len(FileOrder)}

files_to_write(tf) ==
  [n \in FileNames |->
     CASE n = "provider.tf"      -> tf["provider_tf"]
       [] n = "main.tf"          -> tf["main_tf"]
       [] n = "variables.tf"     -> tf["variables_tf"]
       [] n = "outputs.tf"       -> tf["outputs_tf"]
       [] n = "terraform.tfvars" -> tf["terraform_tfvars"]]

\* ------------------------------------------------- the working directories
\* "wd" and "wd2" are directories callers name, "tmp" is the
\* TemporaryDirectory of provision_workspace
Dirs == {"wd", "wd2", "tmp"}

EmptyDir == [files |-> [n \in FileNames |-> None], tfplan |-> None]

\* ------------------------------------------------------- external commands
CmdInit    == <<"terraform", "init">>
CmdPlan    == <<"terraform", "plan", "-out=tfplan">>
\* variant: apply without the plan file, so that terraform plans afresh
CmdApply_NoPlanFile == <<"terraform", "apply", "-auto-approve">>
CmdApply   == <<"terraform", "apply", "-auto-approve", "tfplan">>
CmdOutput  == <<"terraform", "output", "-json">>
CmdDestroy == <<"terraform", "destroy", "-auto-approve">>

\* what subprocess.run can do: return with exit code 0 or not, raise
\* TimeoutExpired, raise another exception (the binary cannot be started)
RunOutcomes == {"exit0", "nonzero", "timeout", "exception"}

\* exceptions, with the text str(e) gives
TimeoutExpired == [type |-> "TimeoutExpired", text |-> "Command timed out after seconds"]
OSError        == [type |-> "OSError", text |-> "os error"]
EOFError       == [type |-> "EOFError", text |-> "EOF when reading a line"]
StageError     == [type |-> "ValueError", text |-> "stage failed"]

\* the error stream and the output stream of a finished command
Stderr(command) == "stderr of " \o command[2]
Stdout(command) == "stdout of " \o command[2]

\* the human-readable text of plan p, which terraform plan prints
PlanText(p) == <<"plan text", p>>

VARIABLES
  timeout_seconds,  \* TerraformExecutor.timeout_seconds
  dirs,             \* contents of the working directories
  planSeq,          \* number of plans terraform has computed so far
  ncalls,           \* number of workflow calls started so far
  entry,            \* the method the caller invoked, "" when idle
  auto_approve,     \* argument auto_approve
  dry_run,          \* argument dry_run
  tf_gen,           \* generation of the terraform_files in hand, 0 if none
  cur_dir,          \* working_dir of the running executor call
  pc,               \* position of the running call
  stages,           \* agent stages invoked in this call, in order
  cmds,             \* external command invocations of this call, in order
  terraform_plan,   \* local terraform_plan of execute_deployment
  shown,            \* plan text printed at the approval gate
  prompts,          \* answers read at the approval gate in this call
  last_input,       \* the last line read at the approval gate, "" if none
  exec_ret,         \* DeploymentResult the executor method returned
  exec_exc,         \* exception that left the executor method
  agent_ret,        \* DeploymentResult the agent method returned
  agent_working_dir,\* InfrastructureAgent.working_dir
  state,            \* InfrastructureOrchestrator.state (ConversationState)
  current_plan,     \* InfrastructureOrchestrator.current_plan
  request,          \* arguments of the running execute_capability call
  plan,             \* local plan of execute_capability (CapabilityPlan)
  verdict,          \* what the user makes of the plan printed to them
  cap_calls,        \* methods of the capability called in this call, in order
  orch_ret,         \* outcome of execute_capability
  other,            \* the execute_deployment call of the other thread
  engine,           \* locals of the running DecisionEngine.make_decision
  decision_ret,     \* InfrastructureDecision that make_decision returned
  downgraded,       \* last direct _downgrade_instance_size call: <<in, out>>
  turn,             \* locals of the running process_message
  succeeded         \* a capability execution succeeded since the last reset

\* the state of the orchestrator layer
orchestrator_vars == <<state, current_plan, request, plan, verdict, cap_calls,
                       orch_ret>>

\* the state outside the executor and the InfrastructureAgent
\* the state of the decision engine
decision_vars == <<engine, decision_ret, downgraded>>

\* the state of a process_message turn
turn_vars == <<turn, succeeded>>

outer_vars == <<orchestrator_vars, other, decision_vars, turn_vars>>

\* the state of the executor and of the InfrastructureAgent
vars_executor ==
  <<agent_working_dir, timeout_seconds, dirs, planSeq, ncalls, entry,
    auto_approve, dry_run, tf_gen, cur_dir, pc, stages, cmds,
    terraform_plan, shown, prompts, last_input, exec_ret, exec_exc,
    agent_ret>>

vars == <<vars_executor, outer_vars>>

ExecutorEntries == {"execute_deployment", "destroy_deployment"}
AgentEntries    == {"provision_workspace", "destroy_workspace"}

\* TerraformExecutor.__init__: timeout_seconds or Config.TERRAFORM_TIMEOUT_SECONDS
ExecutorInit(arg) == IF arg = None \/ arg = Some(0)
                     THEN TERRAFORM_TIMEOUT_SECONDS
                     ELSE arg[1]

\* ConversationState() with its defaults
ConversationState ==
  [messages_count |-> 0, plan_proposed |-> FALSE, plan_approved |-> FALSE,
   deployment_complete |-> FALSE]

\* no process_message is running
IdleTurn ==
  [ pc |-> "idle", calls |-> <<>>, idx |-> 0, tool_results |-> <<>>,
    runs |-> <<>>, deployment_triggered |-> FALSE ]

\* InfrastructureOrchestrator.__init__, no call running
OrchestratorInit ==
  /\ state = ConversationState
  /\ current_plan = None
  /\ request = None
  /\ plan = None
  /\ verdict = ""
  /\ cap_calls = <<>>
  /\ orch_ret = None

\* the locals of a call that has not started
IdleCall ==
  [ entry |-> "", auto_approve |-> FALSE, dry_run |-> FALSE, tf_gen |-> 0,
    cur_dir |-> "wd", pc |-> "idle", cmds |-> <<>>, terraform_plan |-> None,
    shown |-> None, prompts |-> 0, last_input |-> "", exec_ret |-> None,
    exec_exc |-> None ]

\* the locals of make_decision when it is not running
IdleEngine ==
  [ pc |-> "idle", request |-> None, size |-> "", first_size |-> "",
    instance_types |-> None, databricks_sku |-> "", cluster_config |-> None,
    spark_version |-> "", cost_breakdown |-> None, evaluations |-> 0,
    downgrades |-> 0 ]

\* DecisionEngine has no state of its own
DecisionEngineInit ==
  /\ engine = IdleEngine
  /\ decision_ret = None
  /\ downgraded = None

Init ==
  /\ OrchestratorInit
  /\ turn = IdleTurn
  /\ succeeded = FALSE
  /\ DecisionEngineInit
  /\ other = IdleCall
  /\ \E arg \in {None, Some(0), Some(600)} : timeout_seconds = ExecutorInit(arg)
  /\ agent_working_dir \in {None, Some("wd")}
  /\ dirs = [d \in Dirs |-> EmptyDir]
  /\ planSeq = 0
  /\ ncalls = 0
  /\ entry = ""
  /\ auto_approve = FALSE
  /\ dry_run = FALSE
  /\ tf_gen = 0
  /\ cur_dir = "wd"
  /\ pc = "idle"
  /\ stages = <<>>
  /\ cmds = <<>>
  /\ terraform_plan = None
  /\ shown = None
  /\ prompts = 0
  /\ last_input = ""
  /\ exec_ret = None
  /\ exec_exc = None
  /\ agent_ret = None

\* ------------------------------------------------- leaving a method
Returned(r) == [kind |-> "return", result |-> Some(r), exc |-> None]
Raised(e)   == [kind |-> "raise", result |-> None, exc |-> Some(e)]

Elapsed == Some("time.time() - start_time")

\* variant: a failed result built without its error_message
Failure_NoMessage(msg) ==
  [DeploymentResult(FALSE) EXCEPT !.deployment_time_seconds = Elapsed]

Failure(msg) ==
  [DeploymentResult(FALSE) EXCEPT !.error_message = Some(msg),
                                  !.deployment_time_seconds = Elapsed]

\* variant: the generic except clause of execute_deployment is missing
ExecuteDeploymentExcept_NoCatchAll(e) ==
  IF e.type = "TimeoutExpired"
  THEN Returned(Failure(<<"Terraform command timeout after ",
                          ToString(timeout_seconds), "s">>))
  ELSE Raised(e)

\* the except clauses of execute_deployment
ExecuteDeploymentExcept(e) ==
  IF e.type = "TimeoutExpired"
  THEN Returned(Failure(<<"Terraform command timeout after ",
                          ToString(timeout_seconds), "s">>))
  ELSE Returned(Failure(<<"Unexpected error: ", e.text>>))

\* the except clause of destroy_deployment
DestroyDeploymentExcept(e) ==
  Returned(Failure(<<"Destroy failed: ", e.text>>))

\* the executor method ends with outcome out
ExecLeave(out) ==
  /\ exec_ret' = out.result
  /\ exec_exc' = out.exc
  /\ pc' = "exec_done"

\* variant: subprocess.run called without timeout=
RunTerraformCommand_NoTimeout(command, o, p, doc) ==
  [command |-> command, timeout |-> None, outcome |-> o,
   plan |-> p, stdout |-> doc]

\* _run_terraform_command: one subprocess.run of command under the executor's
\* timeout, which ends with outcome o; p is the plan the tool computed or
\* consumed, doc the document it printed (None where the model has neither)
RunTerraformCommand(command, o, p, doc) ==
  [command |-> command, timeout |-> Some(timeout_seconds), outcome |-> o,
   plan |-> p, stdout |-> doc]

\* variant: the command is started in the directory of the process
Cwd_ProcessDirectory(working_dir) == "wd"

\* cwd=working_dir of subprocess.run: the directory the command acts on
Cwd(working_dir) == working_dir

\* the exception subprocess.run raises for outcome o
RunException(o) == IF o = "timeout" THEN TimeoutExpired ELSE OSError

\* ------------------------------------------------------- the entry points
BeginCall(e, aa, dr, g) ==
  /\ pc = "idle"
  /\ ncalls < MaxCalls
  /\ ncalls' = ncalls + 1
  /\ entry' = e
  /\ auto_approve' = aa
  /\ dry_run' = dr
  /\ tf_gen' = g

CallExecuteDeployment ==
  \E aa \in BOOLEAN, dr \in BOOLEAN, g \in Generations :
    /\ BeginCall("execute_deployment", aa, dr, g)
    /\ cur_dir' = "wd"
    /\ pc' = "write_files"
    /\ UNCHANGED <<outer_vars, agent_working_dir, timeout_seconds, dirs, planSeq, stages,
                   cmds, terraform_plan, shown, prompts, last_input, exec_ret, exec_exc,
                   agent_ret>>

\* destroy_deployment up to its first blocking call: the warning banner and
\* input() unless auto_approve, the destroy command otherwise
EnterDestroyDeployment(aa) ==
  /\ cur_dir' = "wd"
  /\ pc' = IF aa THEN "destroy" ELSE "destroy_approval"

CallDestroyDeployment ==
  \E aa \in BOOLEAN :
    /\ BeginCall("destroy_deployment", aa, FALSE, 0)
    /\ EnterDestroyDeployment(aa)
    /\ UNCHANGED <<outer_vars, agent_working_dir, timeout_seconds, dirs, planSeq, stages,
                   cmds, terraform_plan, shown, prompts, last_input, exec_ret, exec_exc,
                   agent_ret>>

CallProvisionWorkspace ==
  \E aa \in BOOLEAN, dr \in BOOLEAN :
    /\ BeginCall("provision_workspace", aa, dr, 0)
    /\ pc' = "recognize_intent"
    /\ UNCHANGED <<outer_vars, agent_working_dir, timeout_seconds, dirs, planSeq, stages,
                   cmds, terraform_plan, shown, prompts, last_input, exec_ret, exec_exc,
                   agent_ret, cur_dir>>

CallDestroyWorkspace ==
  \E aa \in BOOLEAN :
    /\ BeginCall("destroy_workspace", aa, FALSE, 0)
    /\ EnterDestroyDeployment(aa)
    /\ UNCHANGED <<outer_vars, agent_working_dir, timeout_seconds, dirs, planSeq, stages,
                   cmds, terraform_plan, shown, prompts, last_input, exec_ret, exec_exc,
                   agent_ret>>

\* --------------------------------------------------- execute_deployment
\* variant: terraform.tfvars, the last file, is never written
WriteFirst_OmitsTfvars(d, tf, n) ==
  [d EXCEPT !.files =
     [name \in FileNames |->
        IF \E i \in 1..n : FileOrder[i] = name /\ name # "terraform.tfvars"
        THEN Some(files_to_write(tf)[name])
        ELSE d.files[name]]]

\* contents of directory d after the first n files of files_to_write(tf)
\* were written
WriteFirst(d, tf, n) ==
  [d EXCEPT !.files =
     [name \in FileNames |->
        IF \E i \in 1..n : FileOrder[i] = name
        THEN Some(files_to_write(tf)[name])
        ELSE d.files[name]]]

\* Step 1, _write_terraform_files: mkdir, then the five write_text calls in
\* order; any of them may raise, which leaves the files written before it
WriteTerraformFiles ==
  /\ pc = "write_files"
  /\ \E n \in 0..Len(FileOrder) :
       /\ dirs' = [dirs EXCEPT ![cur_dir] =
                     WriteFirst(dirs[cur_dir], TerraformFiles(tf_gen), n)]
       /\ IF n = Len(FileOrder)
          THEN /\ pc' = "init"
               /\ UNCHANGED <<exec_ret, exec_exc>>
          ELSE ExecLeave(ExecuteDeploymentExcept(OSError))
  /\ UNCHANGED <<outer_vars, agent_working_dir, timeout_seconds, planSeq, ncalls, entry,
                 auto_approve, dry_run, tf_gen, cur_dir, stages, cmds,
                 terraform_plan, shown, prompts, last_input, agent_ret>>

\* variant: the return code of init is not looked at
AfterInit_IgnoresExitCode(o) ==
  CASE o \in {"exit0", "nonzero"} ->
         /\ pc' = "plan"
         /\ UNCHANGED <<exec_ret, exec_exc>>
    [] OTHER ->
         ExecLeave(ExecuteDeploymentExcept(RunException(o)))

\* execute_deployment after the init command ended with outcome o
AfterInit(o) ==
  CASE o = "exit0" ->
         /\ pc' = "plan"
         /\ UNCHANGED <<exec_ret, exec_exc>>
    [] o = "nonzero" ->
         ExecLeave(Returned(
           Failure(<<"terraform init failed: ", Stderr(CmdInit)>>)))
    [] OTHER ->
         ExecLeave(ExecuteDeploymentExcept(RunException(o)))

\* Step 2: terraform init
TerraformInit ==
  /\ pc = "init"
  /\ \E o \in RunOutcomes :
       /\ cmds' = Append(cmds, RunTerraformCommand(CmdInit, o, None, None))
       /\ AfterInit(o)
  /\ UNCHANGED <<outer_vars, agent_working_dir, timeout_seconds, dirs, planSeq, ncalls,
                 entry, auto_approve, dry_run, tf_gen, cur_dir, stages,
                 terraform_plan, shown, prompts, last_input, agent_ret>>

\* what terraform plan prints when it exits non-zero
PlanDiagnostics == <<"plan diagnostics", 0>>

\* variant: the result of a failed plan carries no terraform_plan
PlanFailure_DropsStdout(stdout) ==
  Failure(<<"terraform plan failed: ", Stderr(CmdPlan)>>)

\* the result returned when the plan command exited non-zero with stdout
PlanFailure(stdout) ==
  [Failure(<<"terraform plan failed: ", Stderr(CmdPlan)>>)
     EXCEPT !.terraform_plan = Some(stdout)]

\* variant: the dry-run return is taken only when approval is required
AfterPlan_DryRunOnlyWithGate(text) ==
  /\ terraform_plan' = Some(text)
  /\ IF dry_run /\ ~auto_approve
     THEN /\ ExecLeave(Returned(
               [DeploymentResult(TRUE) EXCEPT
                  !.terraform_plan = Some(text),
                  !.deployment_time_seconds = Elapsed]))
          /\ UNCHANGED shown
     ELSE IF ~auto_approve
     THEN /\ pc' = "approval"
          /\ shown' = Some(text)
          /\ UNCHANGED <<exec_ret, exec_exc>>
     ELSE /\ pc' = "apply"
          /\ UNCHANGED <<shown, exec_ret, exec_exc>>

\* execute_deployment from a plan that exited 0 to its next blocking call:
\* the dry-run return, the banner and input() of _request_approval, or the
\* apply command
AfterPlan(text) ==
  /\ terraform_plan' = Some(text)
  /\ IF dry_run
     THEN /\ ExecLeave(Returned(
               [DeploymentResult(TRUE) EXCEPT
                  !.terraform_plan = Some(text),
                  !.deployment_time_seconds = Elapsed]))
          /\ UNCHANGED shown
     ELSE IF ~auto_approve
     THEN /\ pc' = "approval"
          /\ shown' = Some(text)
          /\ UNCHANGED <<exec_ret, exec_exc>>
     ELSE /\ pc' = "apply"
          /\ UNCHANGED <<shown, exec_ret, exec_exc>>

\* Step 3: terraform plan -out=tfplan.  Exit 0 computes a new plan, writes it
\* to the tfplan file of the working directory and prints its text; a run
\* killed by the timeout may or may not have written the file.
TerraformPlan ==
  /\ pc = "plan"
  /\ \E o \in RunOutcomes, wrote \in BOOLEAN :
       LET p == planSeq + 1
           computed == o = "exit0" \/ (o = "timeout" /\ wrote)
       IN
       /\ wrote => o \in {"exit0", "timeout"}
       /\ o = "exit0" => wrote
       /\ cmds' = Append(cmds, RunTerraformCommand(CmdPlan, o,
                            IF computed THEN Some(p) ELSE None, None))
       /\ planSeq' = IF computed THEN p ELSE planSeq
       /\ dirs' = IF computed
                  THEN [dirs EXCEPT ![Cwd(cur_dir)].tfplan = Some(p)]
                  ELSE dirs
       /\ CASE o = "exit0" -> AfterPlan(PlanText(p))
            [] o = "nonzero" ->
                 /\ ExecLeave(Returned(PlanFailure(PlanDiagnostics)))
                 /\ UNCHANGED <<terraform_plan, shown>>
            [] OTHER ->
                 /\ ExecLeave(ExecuteDeploymentExcept(RunException(o)))
                 /\ UNCHANGED <<terraform_plan, shown>>
  /\ UNCHANGED <<outer_vars, agent_working_dir, timeout_seconds, ncalls, entry,
                 auto_approve, dry_run, tf_gen, cur_dir, stages, prompts,
                 last_input, agent_ret>>

\* what the user may type at a prompt
ApprovalInputs == {"yes", " YES ", "no", "No", "y", ""}

\* the end of the input stream, on which input() raises EOFError
EOF == "<EOF>"

\* str.strip().lower() on the inputs above
StripLower(a) ==
  CASE a = "yes"   -> "yes"
    [] a = " YES " -> "yes"
    [] a = "no"    -> "no"
    [] a = "No"    -> "no"
    [] OTHER       -> a

\* variant: the line "y" is taken as an approval
RequestApprovalLoop_AcceptsY(a) ==
  LET response == StripLower(a) IN
  CASE response \in {"yes", "y"} -> "True"
    [] response = "no"           -> "False"
    [] OTHER                     -> "again"

\* the body of the loop of _request_approval for the line a: "True" and
\* "False" are its return values, "again" the next round of the loop
RequestApprovalLoop(a) ==
  LET response == StripLower(a) IN
  CASE response = "yes" -> "True"
    [] response = "no"  -> "False"
    [] OTHER            -> "again"

\* variant: the cancelled result does not carry the plan
AfterApproval_DropsPlan(approval) ==
  IF ~approval
  THEN ExecLeave(Returned(Failure(<<"Deployment cancelled by user">>)))
  ELSE /\ pc' = "apply"
       /\ UNCHANGED <<exec_ret, exec_exc>>

\* execute_deployment after _request_approval returned approval
AfterApproval(approval) ==
  IF ~approval
  THEN ExecLeave(Returned(
         [Failure(<<"Deployment cancelled by user">>)
            EXCEPT !.terraform_plan = terraform_plan]))
  ELSE /\ pc' = "apply"
       /\ UNCHANGED <<exec_ret, exec_exc>>

\* Step 4, _request_approval: one input() of its loop.  input() returns a
\* line or raises EOFError.
RequestApproval ==
  /\ pc = "approval"
  /\ prompts' = prompts + 1
  /\ \E a \in ApprovalInputs \cup {EOF} :
       /\ last_input' = a
       /\ IF a = EOF
          THEN ExecLeave(ExecuteDeploymentExcept(EOFError))
          ELSE LET decision == RequestApprovalLoop(a) IN
               IF decision = "again"
               THEN /\ prompts < MaxPrompts
                    /\ UNCHANGED <<pc, exec_ret, exec_exc>>
               ELSE AfterApproval(decision = "True")
  /\ UNCHANGED <<outer_vars, agent_working_dir, timeout_seconds, dirs, planSeq, ncalls,
                 entry, auto_approve, dry_run, tf_gen, cur_dir, stages, cmds,
                 terraform_plan, shown, agent_ret>>

\* the plan terraform apply acts on: the plan file named on the command
\* line, else a plan it computes itself
ApplyTarget(command, working_dir) ==
  IF command[Len(command)] = "tfplan"
  THEN dirs[Cwd(working_dir)].tfplan
  ELSE Some(planSeq + 1)

\* variant: a failed apply is run once more
AfterApply_Retries(o) ==
  CASE o = "exit0" ->
         /\ pc' = "parse_outputs"
         /\ UNCHANGED <<exec_ret, exec_exc>>
    [] o = "nonzero" ->
         IF \E i \in 1..Len(cmds) : cmds[i].command[2] = "apply"
         THEN ExecLeave(Returned(
                [Failure(<<"terraform apply failed: ", Stderr(CmdApply)>>)
                   EXCEPT !.terraform_plan = terraform_plan]))
         ELSE /\ pc' = "apply"
              /\ UNCHANGED <<exec_ret, exec_exc>>
    [] OTHER ->
         ExecLeave(ExecuteDeploymentExcept(RunException(o)))

\* execute_deployment after the apply command ended with outcome o
AfterApply(o) ==
  CASE o = "exit0" ->
         /\ pc' = "parse_outputs"
         /\ UNCHANGED <<exec_ret, exec_exc>>
    [] o = "nonzero" ->
         ExecLeave(Returned(
           [Failure(<<"terraform apply failed: ", Stderr(CmdApply)>>)
              EXCEPT !.terraform_plan = terraform_plan]))
    [] OTHER ->
         ExecLeave(ExecuteDeploymentExcept(RunException(o)))

\* Step 5: terraform apply -auto-approve tfplan
TerraformApply ==
  /\ pc = "apply"
  /\ \E o \in RunOutcomes :
       LET command == CmdApply
           target  == ApplyTarget(command, cur_dir)
       IN
       /\ target = None => o = "nonzero"
       /\ cmds' = Append(cmds, RunTerraformCommand(command, o, target, None))
       /\ planSeq' = IF command[Len(command)] = "tfplan"
                     THEN planSeq ELSE planSeq + 1
       /\ AfterApply(o)
  /\ UNCHANGED <<outer_vars, agent_working_dir, timeout_seconds, dirs, ncalls, entry,
                 auto_approve, dry_run, tf_gen, cur_dir, stages,
                 terraform_plan, shown, prompts, last_input, agent_ret>>

\* ------------------------------------------------ _parse_terraform_outputs
\* the names execute_deployment looks up, and one it does not
OutputKeys == {"workspace_url", "workspace_id", "resource_group_name",
               "instance_pool_id", "cluster_id"}

\* JSON values of an output document: {"value": "adb-1"}, {"value": 42} and
\* the bare string "plain"
JsonValues ==
  { [shape |-> "wrapped", kind |-> "str", s |-> "adb-1", n |-> 0],
    [shape |-> "wrapped", kind |-> "num", s |-> "",      n |-> 42],
    [shape |-> "bare",    kind |-> "str", s |-> "plain", n |-> 0] }

\* what terraform output -json may print: an object of outputs, a JSON
\* document that is no object, or text that is no JSON
MalformedDoc == [kind |-> "malformed", members |-> <<>>]
ArrayDoc     == [kind |-> "array", members |-> <<>>]
OutputDocs ==
  { [kind |-> "object", members |-> [k \in S |-> v]] :
      S \in SUBSET OutputKeys, v \in JsonValues }
  \cup {MalformedDoc, ArrayDoc}

\* str() of a JSON scalar
PyStr(v) == IF v.kind = "num" THEN ToString(v.n) ELSE v.s

\* str() of a value object as it stands: the repr of the dict when it is one
PyStrObj(v) == IF v.shape = "wrapped"
               THEN "{'value': " \o PyStr(v) \o "}"
               ELSE PyStr(v)

\* the loop body of _parse_terraform_outputs for one value object
ExtractValue(v) == IF v.shape = "wrapped" THEN PyStr(v) ELSE PyStrObj(v)

JSONDecodeError == [type |-> "JSONDecodeError", text |-> "Expecting value"]
AttributeError  == [type |-> "AttributeError", text |-> "no attribute items"]

\* the body of the try block: the command ended with outcome o and, if it
\* exited 0, printed doc
ParseOutputsTry(o, doc) ==
  CASE o = "nonzero"            -> Returned(<<>>)
    [] o = "timeout"            -> Raised(TimeoutExpired)
    [] o = "exception"          -> Raised(OSError)
    [] doc.kind = "malformed"   -> Raised(JSONDecodeError)
    [] doc.kind = "array"       -> Raised(AttributeError)
    [] OTHER ->
         Returned([k \in DOMAIN doc.members |-> ExtractValue(doc.members[k])])

\* variant: only json.JSONDecodeError is caught
ParseTerraformOutputs_OnlyJsonErrors(o, doc) ==
  LET body == ParseOutputsTry(o, doc) IN
  IF body.kind = "raise" /\ body.exc[1].type = "JSONDecodeError"
  THEN Returned(<<>>)
  ELSE body

\* _parse_terraform_outputs: the try block and its except clauses
ParseTerraformOutputs(o, doc) ==
  LET body == ParseOutputsTry(o, doc) IN
  IF body.kind = "raise" THEN Returned(<<>>) ELSE body

\* dict.get
Get(m, k) == IF k \in DOMAIN m THEN Some(m[k]) ELSE None

\* variant: workspace_id looked up under the key of workspace_url
Deployed_WrongKey(outputs) ==
  [DeploymentResult(TRUE) EXCEPT
     !.workspace_url           = Get(outputs, "workspace_url"),
     !.workspace_id            = Get(outputs, "workspace_url"),
     !.resource_group_name     = Get(outputs, "resource_group_name"),
     !.instance_pool_id        = Get(outputs, "instance_pool_id"),
     !.deployment_time_seconds = Elapsed,
     !.terraform_outputs       = Some(outputs),
     !.terraform_plan          = terraform_plan]

\* the DeploymentResult of a completed deployment
Deployed(outputs) ==
  [DeploymentResult(TRUE) EXCEPT
     !.workspace_url           = Get(outputs, "workspace_url"),
     !.workspace_id            = Get(outputs, "workspace_id"),
     !.resource_group_name     = Get(outputs, "resource_group_name"),
     !.instance_pool_id        = Get(outputs, "instance_pool_id"),
     !.deployment_time_seconds = Elapsed,
     !.terraform_outputs       = Some(outputs),
     !.terraform_plan          = terraform_plan]

\* Step 6: terraform output -json, then the final result
ParseOutputs ==
  /\ pc = "parse_outputs"
  /\ \E o \in RunOutcomes, doc \in OutputDocs :
       LET parsed == ParseTerraformOutputs(o, doc) IN
       /\ o # "exit0" => doc = MalformedDoc
       /\ cmds' = Append(cmds, RunTerraformCommand(CmdOutput, o, None, Some(doc)))
       /\ IF parsed.kind = "raise"
          THEN ExecLeave(ExecuteDeploymentExcept(parsed.exc[1]))
          ELSE ExecLeave(Returned(Deployed(parsed.result[1])))
  /\ UNCHANGED <<outer_vars, agent_working_dir, timeout_seconds, dirs, planSeq, ncalls,
                 entry, auto_approve, dry_run, tf_gen, cur_dir, stages,
                 terraform_plan, shown, prompts, last_input, agent_ret>>

\* --------------------------------------------------- destroy_deployment
\* variant: the answer is compared as typed
DestroyApproved_AsTyped(a) == a = "yes"

\* the test of destroy_deployment on the line a: approval == "yes" after
\* strip() and lower()
DestroyApproved(a) == StripLower(a) = "yes"

\* the single input() of destroy_deployment
DestroyApproval ==
  /\ pc = "destroy_approval"
  /\ prompts' = prompts + 1
  /\ \E a \in ApprovalInputs \cup {EOF} :
       /\ last_input' = a
       /\ IF a = EOF
          THEN ExecLeave(DestroyDeploymentExcept(EOFError))
          ELSE IF ~DestroyApproved(a)
          THEN ExecLeave(Returned(Failure(<<"Destroy cancelled by user">>)))
          ELSE /\ pc' = "destroy"
               /\ UNCHANGED <<exec_ret, exec_exc>>
  /\ UNCHANGED <<outer_vars, agent_working_dir, timeout_seconds, dirs, planSeq, ncalls,
                 entry, auto_approve, dry_run, tf_gen, cur_dir, stages, cmds,
                 terraform_plan, shown, agent_ret>>

\* variant: the failure of destroy is reported without the error stream
AfterDestroy_NoStderr(o) ==
  CASE o = "exit0" ->
         ExecLeave(Returned(
           [DeploymentResult(TRUE) EXCEPT !.deployment_time_seconds = Elapsed]))
    [] o = "nonzero" ->
         ExecLeave(Returned(Failure(<<"terraform destroy failed">>)))
    [] OTHER ->
         ExecLeave(DestroyDeploymentExcept(RunException(o)))

\* destroy_deployment after the destroy command ended with outcome o
AfterDestroy(o) ==
  CASE o = "exit0" ->
         ExecLeave(Returned(
           [DeploymentResult(TRUE) EXCEPT !.deployment_time_seconds = Elapsed]))
    [] o = "nonzero" ->
         ExecLeave(Returned(
           Failure(<<"terraform destroy failed: ", Stderr(CmdDestroy)>>)))
    [] OTHER ->
         ExecLeave(DestroyDeploymentExcept(RunException(o)))

\* terraform destroy -auto-approve
TerraformDestroy ==
  /\ pc = "destroy"
  /\ \E o \in RunOutcomes :
       /\ cmds' = Append(cmds, RunTerraformCommand(CmdDestroy, o, None, None))
       /\ AfterDestroy(o)
  /\ UNCHANGED <<outer_vars, agent_working_dir, timeout_seconds, dirs, planSeq, ncalls,
                 entry, auto_approve, dry_run, tf_gen, cur_dir, stages,
                 terraform_plan, shown, prompts, last_input, agent_ret>>

\* --------------------------------------------------- InfrastructureAgent
\* the failed result the except clause of an agent method builds
AgentError(e, time) ==
  [DeploymentResult(FALSE) EXCEPT
     !.error_message = Some(<<"Agent error: ", e.text>>),
     !.deployment_time_seconds = Some(time)]

\* a stage raised: the except clause of provision_workspace
StageRaised ==
  /\ agent_ret' = Some(AgentError(StageError, "total_time"))
  /\ pc' = "agent_done"

\* the values handed from stage to stage: the user's message, the
\* InfrastructureRequest, the InfrastructureDecision, the TerraformFiles
UserMessage == <<"user_message", 1>>
Requests    == {<<"infrastructure_request", r>> : r \in {1, 2}}
Decisions   == {<<"infrastructure_decision", d>> : d \in {1, 2}}
FilesOf(g)  == <<"terraform_files", g>>

\* variant: generate is handed the request instead of the decision
StageArg_SkipsDecision(log, name) ==
  CASE name = "recognize_intent"   -> UserMessage
    [] name = "make_decision"      -> log[1].out[1]
    [] name = "generate"           -> log[1].out[1]
    [] name = "execute_deployment" -> log[3].out[1]

\* the argument provision_workspace passes to stage name, log being the
\* stages it has run so far
StageArg(log, name) ==
  CASE name = "recognize_intent"   -> UserMessage
    [] name = "make_decision"      -> log[1].out[1]
    [] name = "generate"           -> log[2].out[1]
    [] name = "execute_deployment" -> log[3].out[1]

\* the log entry of one stage call; out is None when the stage raised
StageCall(log, name, out) ==
  [stage |-> name, arg |-> StageArg(log, name), out |-> out]

\* [1/4] intent_recognizer.recognize_intent(user_message)
RecognizeIntent ==
  /\ pc = "recognize_intent"
  /\ \E ok \in BOOLEAN, r \in Requests :
       IF ok
       THEN /\ stages' = Append(stages,
                           StageCall(stages, "recognize_intent", Some(r)))
            /\ pc' = "make_decision"
            /\ UNCHANGED agent_ret
       ELSE /\ stages' = Append(stages,
                           StageCall(stages, "recognize_intent", None))
            /\ StageRaised
  /\ UNCHANGED <<outer_vars, agent_working_dir, timeout_seconds, dirs, planSeq, ncalls,
                 entry, auto_approve, dry_run, tf_gen, cur_dir, cmds,
                 terraform_plan, shown, prompts, last_input, exec_ret,
                 exec_exc>>

\* [2/4] decision_engine.make_decision(infrastructure_request)
MakeDecision ==
  /\ pc = "make_decision"
  /\ \E ok \in BOOLEAN, d \in Decisions :
       IF ok
       THEN /\ stages' = Append(stages,
                           StageCall(stages, "make_decision", Some(d)))
            /\ pc' = "generate"
            /\ UNCHANGED agent_ret
       ELSE /\ stages' = Append(stages,
                           StageCall(stages, "make_decision", None))
            /\ StageRaised
  /\ UNCHANGED <<outer_vars, agent_working_dir, timeout_seconds, dirs, planSeq, ncalls,
                 entry, auto_approve, dry_run, tf_gen, cur_dir, cmds,
                 terraform_plan, shown, prompts, last_input, exec_ret,
                 exec_exc>>

\* [3/4] terraform_generator.generate(infrastructure_decision), then [4/4]
\* the choice of the working directory and the call of execute_deployment
Generate ==
  /\ pc = "generate"
  /\ \E ok \in BOOLEAN, g \in Generations :
       IF ok
       THEN /\ LET generated == Append(stages,
                    StageCall(stages, "generate", Some(FilesOf(g))))
               IN
               /\ stages' = Append(generated,
                               StageCall(generated, "execute_deployment", None))
               /\ tf_gen' = StageArg(generated, "execute_deployment")[2]
            /\ IF agent_working_dir # None
               THEN /\ cur_dir' = agent_working_dir[1]
                    /\ UNCHANGED dirs
               ELSE /\ cur_dir' = "tmp"
                    /\ dirs' = [dirs EXCEPT !["tmp"] = EmptyDir]
            /\ pc' = "write_files"
            /\ UNCHANGED agent_ret
       ELSE /\ g = 1
            /\ stages' = Append(stages, StageCall(stages, "generate", None))
            /\ StageRaised
            /\ UNCHANGED <<tf_gen, cur_dir, dirs>>
  /\ UNCHANGED <<outer_vars, agent_working_dir, timeout_seconds, planSeq, ncalls, entry,
                 auto_approve, dry_run, cmds, terraform_plan, shown, prompts,
                 last_input, exec_ret, exec_exc>>

\* the agent method after the executor call: leaving the TemporaryDirectory
\* block (its cleanup may raise), the final logging, the return
AgentFinish ==
  /\ pc = "exec_done"
  /\ entry \in AgentEntries
  /\ \E cleanup_ok \in BOOLEAN :
       LET time == IF entry = "provision_workspace" THEN "total_time" ELSE "0"
       IN
       /\ ~cleanup_ok => entry = "provision_workspace" /\ cur_dir = "tmp"
       /\ dirs' = IF entry = "provision_workspace" /\ cur_dir = "tmp"
                  THEN [dirs EXCEPT !["tmp"] = EmptyDir]
                  ELSE dirs
       /\ agent_ret' = IF exec_exc # None
                       THEN Some(AgentError(exec_exc[1], time))
                       ELSE IF ~cleanup_ok
                       THEN Some(AgentError(OSError, time))
                       ELSE exec_ret
  /\ pc' = "agent_done"
  /\ UNCHANGED <<outer_vars, agent_working_dir, timeout_seconds, planSeq, ncalls, entry,
                 auto_approve, dry_run, tf_gen, cur_dir, stages, cmds,
                 terraform_plan, shown, prompts, last_input, exec_ret,
                 exec_exc>>

\* the caller has the outcome; the executor and the agent are idle again
ReturnToCaller ==
  /\ \/ pc = "agent_done"
     \/ pc = "exec_done" /\ entry \in ExecutorEntries
  /\ pc' = "idle"
  /\ entry' = ""
  /\ auto_approve' = FALSE
  /\ dry_run' = FALSE
  /\ tf_gen' = 0
  /\ cur_dir' = "wd"
  /\ stages' = <<>>
  /\ cmds' = <<>>
  /\ terraform_plan' = None
  /\ shown' = None
  /\ prompts' = 0
  /\ last_input' = ""
  /\ exec_ret' = None
  /\ exec_exc' = None
  /\ agent_ret' = None
  /\ UNCHANGED <<outer_vars, agent_working_dir, timeout_seconds, dirs, planSeq, ncalls>>

Next ==
  \/ CallExecuteDeployment
  \/ CallDestroyDeployment
  \/ CallProvisionWorkspace
  \/ CallDestroyWorkspace
  \/ RecognizeIntent
  \/ MakeDecision
  \/ Generate
  \/ WriteTerraformFiles
  \/ TerraformInit
  \/ TerraformPlan
  \/ RequestApproval
  \/ TerraformApply
  \/ ParseOutputs
  \/ DestroyApproval
  \/ TerraformDestroy
  \/ AgentFinish
  \/ ReturnToCaller

Spec == Init /\ [][Next]_vars

\* execute_deployment called directly, one call after another
NextDeployment ==
  \/ CallExecuteDeployment
  \/ WriteTerraformFiles
  \/ TerraformInit
  \/ TerraformPlan
  \/ RequestApproval
  \/ TerraformApply
  \/ ParseOutputs
  \/ ReturnToCaller

\* A deployment whose blocking calls all end: the user answers at the gate,
\* and the apply command and the output query end, at the latest by the
\* timeout.
SpecDeploymentFair ==
  Init /\ [][NextDeployment]_vars
       /\ WF_vars(RequestApproval) /\ WF_vars(TerraformApply)
       /\ WF_vars(ParseOutputs)

\* ------------------------------------------- InfrastructureOrchestrator
\* self.capabilities after _register_capabilities
capabilities == {"provision_databricks"}

\* the capability names a caller may pass
CapabilityNames == {"provision_databricks", "provision_openai"}

\* the parameters a caller may pass: all of them, without workspace_name,
\* without region, and with workspace_name present but None
ParameterSets ==
  { [team |-> Some("ml"), environment |-> Some("dev"), region |-> Some("eastus"),
     workspace_name |-> Some("ml-dev")],
    [team |-> Some("ml"), environment |-> Some("dev"), region |-> Some("eastus")],
    [team |-> Some("ml"), environment |-> Some("dev")],
    [team |-> Some("ml"), environment |-> Some("dev"), region |-> Some("eastus"),
     workspace_name |-> None] }

\* dict.get(k, default)
GetDefault(m, k, default) == IF k \in DOMAIN m THEN m[k] ELSE default

ValueError(text) == [type |-> "ValueError", text |-> text]
ValidationError  == [type |-> "ValidationError",
                     text |-> "Input should be a valid string"]

\* "Plan failed", which plan() stores when its dry run did not succeed
PlanFailed == <<"Plan failed">>

\* the CapabilityPlan that DatabricksCapability.plan builds from the
\* TerraformFiles of generation g and the result of its dry run
CapabilityPlan(g, plan_result) ==
  [ capability_name   |-> "provision_databricks",
    estimated_cost    |-> Some("estimated_cost"),
    requires_approval |-> TRUE,
    details |-> [ terraform_files |-> g,
                  terraform_plan  |-> IF plan_result.success
                                      THEN plan_result.terraform_plan[1]
                                      ELSE PlanFailed,
                  working_dir     |-> "wd" ] ]

\* ProvisioningPlan(...) of execute_capability: the str fields reject None
ProvisioningPlan(capability_name, parameters, p) ==
  LET fields ==
        [ capability        |-> Some(capability_name),
          workspace_name    |-> GetDefault(parameters, "workspace_name", Some("")),
          resource_group    |-> GetDefault(parameters, "resource_group", Some("")),
          region            |-> GetDefault(parameters, "region", Some("eastus")),
          team              |-> GetDefault(parameters, "team", Some("")),
          environment       |-> GetDefault(parameters, "environment", Some("dev")) ]
  IN
  IF \E f \in DOMAIN fields : fields[f] = None
  THEN Raised(ValidationError)
  ELSE Returned([ fields            |-> fields,
                  estimated_cost    |-> p.estimated_cost,
                  requires_approval |-> p.requires_approval ])

\* the CapabilityResult that DatabricksCapability.execute builds from the
\* DeploymentResult of execute_deployment
CapabilityResult(result) ==
  IF result.success
  THEN [ capability_name |-> "provision_databricks",
         success |-> TRUE,
         message |-> "Successfully deployed Databricks workspace",
         error   |-> None,
         outputs |-> Some([ workspace_url  |-> result.workspace_url,
                            workspace_id   |-> result.workspace_id,
                            resource_group |-> result.resource_group_name ]) ]
  ELSE [ capability_name |-> "provision_databricks",
         success |-> FALSE,
         message |-> "Failed to deploy Databricks workspace",
         error   |-> result.error_message,
         outputs |-> None ]

\* the except clause of DatabricksCapability.execute
CapabilityExecuteExcept(e) ==
  [ capability_name |-> "provision_databricks",
    success |-> FALSE,
    message |-> "Failed to deploy Databricks workspace",
    error   |-> Some(<<e.text>>),
    outputs |-> None ]

\* the method of the capability that is running, "" if none
Running == IF cap_calls = <<>> THEN "" ELSE cap_calls[Len(cap_calls)]

\* execute_capability ends with outcome out
OrchLeave(out) ==
  /\ orch_ret' = Some(out)
  /\ pc' = "orch_done"

\* variant: an unregistered name marks the plan as proposed before raising
UnknownCapabilityState_MarksProposed(s) == [s EXCEPT !.plan_proposed = TRUE]

\* ConversationState after execute_capability raised for an unregistered
\* name: nothing was assigned
UnknownCapabilityState(s) == s

\* execute_capability(capability_name, "Deploy infrastructure", parameters)
\* up to the first step of capability.plan: the lookup of the capability,
\* the CapabilityContext, capability.validate (which reports no errors)
EnterExecuteCapability(capability_name, parameters) ==
  /\ request' = Some([ capability_name |-> capability_name,
                       user_request    |-> "Deploy infrastructure",
                       parameters      |-> parameters ])
  /\ IF capability_name \notin capabilities
     THEN /\ OrchLeave(Raised(ValueError(
               <<"Unknown capability '", capability_name,
                 "'. Available: ", "['provision_databricks']">>)))
          /\ state' = UnknownCapabilityState(state)
          /\ UNCHANGED cap_calls
     ELSE /\ cap_calls' = <<"validate", "plan">>
          /\ pc' = "capability_plan"
          /\ UNCHANGED <<orch_ret, state>>

\* execute_capability called directly
CallExecuteCapability ==
  \E capability_name \in CapabilityNames, parameters \in ParameterSets :
    /\ BeginCall("execute_capability", FALSE, FALSE, 0)
    /\ EnterExecuteCapability(capability_name, parameters)
    /\ UNCHANGED <<turn_vars, other, decision_vars, agent_working_dir, timeout_seconds, dirs, planSeq, stages,
                   cmds, terraform_plan, shown, prompts, last_input, exec_ret,
                   exec_exc, agent_ret, cur_dir, current_plan, plan,
                   verdict>>

\* DatabricksCapability.plan, steps 1 to 4, up to the first command of its
\* dry run: _build_infrastructure_request (the intent parser when a required
\* parameter is missing), make_decision, generate, mkdir.  Each may raise,
\* and nothing in plan or execute_capability catches it.
CapabilityPlanStages ==
  /\ pc = "capability_plan"
  /\ \E ok \in BOOLEAN, g \in Generations :
       IF ok
       THEN /\ tf_gen' = g
            /\ cur_dir' = "wd"
            /\ auto_approve' = FALSE
            /\ dry_run' = TRUE
            /\ pc' = "write_files"
            /\ UNCHANGED orch_ret
       ELSE /\ g = 1
            /\ OrchLeave(Raised(StageError))
            /\ UNCHANGED <<tf_gen, cur_dir, auto_approve, dry_run>>
  /\ UNCHANGED <<turn_vars, other, decision_vars, agent_working_dir, timeout_seconds, dirs, planSeq, ncalls,
                 entry, stages, cmds, terraform_plan, shown, prompts,
                 last_input, exec_ret, exec_exc, agent_ret, state,
                 current_plan, request, plan, verdict, cap_calls>>

\* what the user, reading the plan printed to them, makes of it
Verdicts == {"approve", "decline"}

\* DatabricksCapability.execute up to the first command of its deployment:
\* the TerraformFiles and the working directory are taken from plan.details,
\* execute_deployment is called with auto_approve=True, dry_run=False
EnterCapabilityExecute(p) ==
  /\ cap_calls' = Append(cap_calls, "execute")
  /\ tf_gen' = p.details.terraform_files
  /\ cur_dir' = p.details.working_dir
  /\ auto_approve' = TRUE
  /\ dry_run' = FALSE
  /\ cmds' = <<>>
  /\ terraform_plan' = None
  /\ exec_ret' = None
  /\ pc' = "write_files"

\* execute_capability from the return of capability.plan to the first
\* command of capability.execute: current_plan, plan_proposed, the printed
\* plan, the approval notice, plan_approved, the call of execute
AfterCapabilityPlan(p) ==
  LET provisioning == ProvisioningPlan(request[1].capability_name,
                                       request[1].parameters, p)
  IN
  /\ plan' = Some(p)
  /\ IF provisioning.kind = "raise"
     THEN /\ OrchLeave(Raised(provisioning.exc[1]))
          /\ UNCHANGED <<state, current_plan, verdict, cap_calls, tf_gen,
                         cur_dir, auto_approve, dry_run, cmds, terraform_plan,
                         exec_ret>>
     ELSE /\ current_plan' = provisioning.result
          /\ verdict' \in Verdicts
          /\ state' = [state EXCEPT !.plan_proposed = TRUE,
                                    !.plan_approved = TRUE]
          /\ EnterCapabilityExecute(p)
          /\ UNCHANGED orch_ret

\* the dry run of capability.plan has ended: step 5 of plan, then
\* execute_capability up to the deployment of capability.execute
CapabilityPlanReturn ==
  /\ pc = "exec_done"
  /\ entry = "execute_capability"
  /\ Running = "plan"
  /\ IF exec_exc # None
     THEN /\ OrchLeave(Raised(exec_exc[1]))
          /\ UNCHANGED <<state, current_plan, plan, verdict, cap_calls,
                         tf_gen, cur_dir, auto_approve, dry_run, cmds,
                         terraform_plan, exec_ret>>
     ELSE AfterCapabilityPlan(CapabilityPlan(tf_gen, exec_ret[1]))
  /\ UNCHANGED <<turn_vars, other, decision_vars, agent_working_dir, timeout_seconds, dirs, planSeq, ncalls,
                 entry, stages, shown, prompts, last_input, exec_exc,
                 agent_ret, request>>

\* the deployment of capability.execute has ended: the CapabilityResult, the
\* printed result, return plan, result
CapabilityExecuteReturn ==
  /\ pc = "exec_done"
  /\ entry = "execute_capability"
  /\ Running = "execute"
  /\ LET result == IF exec_exc # None
                   THEN CapabilityExecuteExcept(exec_exc[1])
                   ELSE CapabilityResult(exec_ret[1])
     IN /\ OrchLeave(Returned(<<plan[1], Some(result)>>))
        /\ succeeded' = (succeeded \/ result.success)
  /\ UNCHANGED <<turn, other, decision_vars, agent_working_dir, timeout_seconds, dirs, planSeq, ncalls,
                 entry, auto_approve, dry_run, tf_gen, cur_dir, stages, cmds,
                 terraform_plan, shown, prompts, last_input, exec_ret,
                 exec_exc, agent_ret, state, current_plan, request, plan,
                 verdict, cap_calls>>

\* the caller of execute_capability has the outcome; state and current_plan
\* stay with the orchestrator
OrchReturn ==
  /\ pc = "orch_done"
  /\ pc' = "idle"
  /\ entry' = ""
  /\ auto_approve' = FALSE
  /\ dry_run' = FALSE
  /\ tf_gen' = 0
  /\ cur_dir' = "wd"
  /\ cmds' = <<>>
  /\ terraform_plan' = None
  /\ exec_ret' = None
  /\ exec_exc' = None
  /\ request' = None
  /\ plan' = None
  /\ verdict' = ""
  /\ cap_calls' = <<>>
  /\ orch_ret' = None
  /\ UNCHANGED <<turn_vars, other, decision_vars, agent_working_dir, timeout_seconds, dirs, planSeq, ncalls,
                 stages, shown, prompts, last_input, agent_ret, state,
                 current_plan>>

NextOrch ==
  \/ CallExecuteCapability
  \/ CapabilityPlanStages
  \/ WriteTerraformFiles
  \/ TerraformInit
  \/ TerraformPlan
  \/ TerraformApply
  \/ ParseOutputs
  \/ CapabilityPlanReturn
  \/ CapabilityExecuteReturn
  \/ OrchReturn

SpecOrch == Init /\ [][NextOrch]_vars

\* ------------------------------------------------------- process_message
\* tool_manager.orchestrator: None after ToolManager.__init__, and nothing
\* assigns it
ToolManagerOrchestrator_Set == Some("orchestrator")

ToolManagerOrchestrator == None

\* the arguments of the execute_deployment function calls the agent may
\* issue: of the shape the tool declares (capability_name, parameters), with
\* the parameters beside capability_name, the same without workspace_name,
\* and for a capability that is not registered
FunctionCallArguments ==
  { [capability_name |-> "provision_databricks",
     parameters |-> [team |-> Some("ml"), environment |-> Some("dev"),
                     region |-> Some("eastus"),
                     workspace_name |-> Some("ml-dev"),
                     enable_gpu |-> Some(TRUE),
                     workload_type |-> Some("analytics")]],
    [capability_name |-> "provision_databricks",
     team |-> Some("ml"), environment |-> Some("dev"),
     region |-> Some("eastus"), workspace_name |-> Some("ml-dev"),
     enable_gpu |-> Some(TRUE), workload_type |-> Some("analytics")],
    [capability_name |-> "provision_databricks",
     team |-> Some("ml"), environment |-> Some("dev"),
     region |-> Some("eastus")],
    [capability_name |-> "provision_openai",
     team |-> Some("ml"), environment |-> Some("dev"),
     region |-> Some("eastus"), workspace_name |-> Some("ml-dev")] }

\* the execute_deployment function calls in the messages of one response
Responses ==
  {<<>>} \cup {<<a>> : a \in FunctionCallArguments}
         \cup {<<a, b>> : a \in FunctionCallArguments,
                          b \in FunctionCallArguments}

\* the parameters dict that process_message builds from the arguments args
ScanParameters(args) ==
  [ team           |-> GetDefault(args, "team", None),
    environment    |-> GetDefault(args, "environment", None),
    region         |-> GetDefault(args, "region", None),
    workspace_name |-> GetDefault(args, "workspace_name", None),
    enable_gpu     |-> GetDefault(args, "enable_gpu", Some(FALSE)),
    workload_type  |-> GetDefault(args, "workload_type", Some("ml")) ]

\* the function call that the turn is at
CurrentCall == turn.calls[turn.idx]

\* the turn goes on to the next function call: the framework invokes the
\* tool for every call while agent.run is running, process_message scans the
\* messages of the response after agent.run returned
NextFunctionCall(t) ==
  IF t.idx < Len(t.calls) THEN [t EXCEPT !.idx = @ + 1]
  ELSE IF t.pc = "tool" THEN [t EXCEPT !.pc = "scan", !.idx = 1]
  ELSE [t EXCEPT !.pc = "done"]

\* process_message up to the first tool invocation of agent.run; every
\* function call of the response counts as a call
CallProcessMessage ==
  /\ pc = "idle"
  /\ turn.pc = "idle"
  /\ \E calls \in Responses :
       LET n == IF calls = <<>> THEN 1 ELSE Len(calls) IN
       /\ ncalls + n <= MaxCalls
       /\ ncalls' = ncalls + n
       /\ turn' = [IdleTurn EXCEPT
                     !.pc = IF calls = <<>> THEN "done" ELSE "tool",
                     !.calls = calls,
                     !.idx = IF calls = <<>> THEN 0 ELSE 1]
  /\ state' = [state EXCEPT !.messages_count = @ + 1]
  /\ entry' = "process_message"
  /\ pc' = "process_message"
  /\ UNCHANGED <<succeeded, other, decision_vars, agent_working_dir,
                 timeout_seconds, dirs, planSeq, auto_approve, dry_run,
                 tf_gen, cur_dir, stages, cmds, terraform_plan, shown,
                 prompts, last_input, exec_ret, exec_exc, agent_ret,
                 current_plan, request, plan, verdict, cap_calls, orch_ret>>

\* the registered tool function execute_deployment, invoked by the framework
\* for the function call the turn is at: without an orchestrator it returns
\* an error document, with one it calls execute_capability
ToolExecuteDeployment ==
  /\ pc = "process_message"
  /\ turn.pc = "tool"
  /\ IF ToolManagerOrchestrator = None
     THEN /\ turn' = NextFunctionCall(
                       [turn EXCEPT !.tool_results =
                          Append(@, [status  |-> "error",
                                     message |-> "Orchestrator not available"])])
          /\ UNCHANGED <<entry, pc, state, request, cap_calls, orch_ret>>
     ELSE /\ entry' = "execute_capability"
          /\ EnterExecuteCapability(
               CurrentCall.capability_name,
               GetDefault(CurrentCall, "parameters", <<>>))
          /\ UNCHANGED turn
  /\ UNCHANGED <<succeeded, other, decision_vars, agent_working_dir,
                 timeout_seconds, dirs, planSeq, ncalls, auto_approve,
                 dry_run, tf_gen, cur_dir, stages, cmds, terraform_plan,
                 shown, prompts, last_input, exec_ret, exec_exc, agent_ret,
                 current_plan, plan, verdict>>

\* the scan of response.messages finds the function call the turn is at and
\* calls execute_capability for it
ScanFunctionCall ==
  /\ pc = "process_message"
  /\ turn.pc = "scan"
  /\ entry' = "execute_capability"
  /\ EnterExecuteCapability(
       GetDefault(CurrentCall, "capability_name", "provision_databricks"),
       ScanParameters(CurrentCall))
  /\ UNCHANGED <<turn_vars, other, decision_vars, agent_working_dir,
                 timeout_seconds, dirs, planSeq, ncalls, auto_approve,
                 dry_run, tf_gen, cur_dir, stages, cmds, terraform_plan,
                 shown, prompts, last_input, exec_ret, exec_exc, agent_ret,
                 current_plan, plan, verdict>>

\* the flags after execute_capability ended with outcome out, in the tool
\* function and in process_message alike: both are set when it returned,
\* the except clause sets nothing
FlagsAfterExecute(s, out) ==
  IF out.kind = "return"
  THEN [s EXCEPT !.plan_approved = TRUE, !.deployment_complete = TRUE]
  ELSE s

\* execute_capability has ended where the tool function or process_message
\* called it: the flags, the printed or returned status, then the next
\* function call
AfterExecuteCapability ==
  /\ pc = "orch_done"
  /\ turn.pc \in {"tool", "scan"}
  /\ LET out      == orch_ret[1]
         returned == out.kind = "return"
         status   == IF returned THEN "success" ELSE "error"
     IN
     /\ state' = FlagsAfterExecute(state, out)
     /\ turn' = NextFunctionCall(
          [turn EXCEPT
             !.runs = Append(@, [call     |-> turn.idx,
                                 via      |-> turn.pc,
                                 methods  |-> cap_calls,
                                 returned |-> returned]),
             !.tool_results =
               IF turn.pc = "tool"
               THEN Append(@, [status |-> status, message |-> status])
               ELSE @,
             !.deployment_triggered =
               @ \/ (turn.pc = "scan" /\ returned)])
  /\ pc' = "process_message"
  /\ entry' = "process_message"
  /\ auto_approve' = FALSE
  /\ dry_run' = FALSE
  /\ tf_gen' = 0
  /\ cur_dir' = "wd"
  /\ cmds' = <<>>
  /\ terraform_plan' = None
  /\ exec_ret' = None
  /\ exec_exc' = None
  /\ request' = None
  /\ plan' = None
  /\ verdict' = ""
  /\ cap_calls' = <<>>
  /\ orch_ret' = None
  /\ UNCHANGED <<succeeded, other, decision_vars, agent_working_dir,
                 timeout_seconds, dirs, planSeq, ncalls, stages, shown,
                 prompts, last_input, agent_ret, current_plan>>

\* process_message returns the text of the response
ReturnResponse ==
  /\ pc = "process_message"
  /\ turn.pc = "done"
  /\ turn' = IdleTurn
  /\ pc' = "idle"
  /\ entry' = ""
  /\ UNCHANGED <<succeeded, other, decision_vars, agent_working_dir,
                 timeout_seconds, dirs, planSeq, ncalls, auto_approve,
                 dry_run, tf_gen, cur_dir, stages, cmds, terraform_plan,
                 shown, prompts, last_input, exec_ret, exec_exc, agent_ret,
                 orchestrator_vars>>

\* InfrastructureOrchestrator.reset, between two turns
Reset ==
  /\ pc = "idle"
  /\ turn.pc = "idle"
  /\ state' = ConversationState
  /\ current_plan' = None
  /\ succeeded' = FALSE
  /\ UNCHANGED <<turn, other, decision_vars, vars_executor, request, plan,
                 verdict, cap_calls, orch_ret>>

NextTurn ==
  \/ CallProcessMessage
  \/ ToolExecuteDeployment
  \/ ScanFunctionCall
  \/ CapabilityPlanStages
  \/ WriteTerraformFiles
  \/ TerraformInit
  \/ TerraformPlan
  \/ TerraformApply
  \/ ParseOutputs
  \/ CapabilityPlanReturn
  \/ CapabilityExecuteReturn
  \/ AfterExecuteCapability
  \/ ReturnResponse
  \/ Reset

SpecTurn == Init /\ [][NextTurn]_vars

\* -------------------------------------- two concurrent execute_deployment
\* One TerraformExecutor, two threads that each call execute_deployment.
\* The locals of the thread that takes the next step are the variables
\* entry .. exec_exc, the locals of the waiting thread are the record other;
\* SwitchThread exchanges them.  The threads share the executor
\* (timeout_seconds) and the file system (dirs).  A step runs from one
\* blocking call to the next; between two blocking calls a thread touches
\* its locals only.

\* the locals of the thread that is taking steps
RunningCall ==
  [ entry |-> entry, auto_approve |-> auto_approve, dry_run |-> dry_run,
    tf_gen |-> tf_gen, cur_dir |-> cur_dir, pc |-> pc, cmds |-> cmds,
    terraform_plan |-> terraform_plan, shown |-> shown, prompts |-> prompts,
    last_input |-> last_input, exec_ret |-> exec_ret, exec_exc |-> exec_exc ]

\* the locals c become those of the thread that is taking steps
Resume(c) ==
  /\ entry' = c.entry
  /\ auto_approve' = c.auto_approve
  /\ dry_run' = c.dry_run
  /\ tf_gen' = c.tf_gen
  /\ cur_dir' = c.cur_dir
  /\ pc' = c.pc
  /\ cmds' = c.cmds
  /\ terraform_plan' = c.terraform_plan
  /\ shown' = c.shown
  /\ prompts' = c.prompts
  /\ last_input' = c.last_input
  /\ exec_ret' = c.exec_ret
  /\ exec_exc' = c.exec_exc

\* execute_deployment(TerraformFiles(g), working_dir, aa, dr) up to
\* _write_terraform_files
EnteredExecuteDeployment(working_dir, aa, dr, g) ==
  [IdleCall EXCEPT !.entry = "execute_deployment", !.auto_approve = aa,
                   !.dry_run = dr, !.tf_gen = g, !.cur_dir = working_dir,
                   !.pc = "write_files"]

\* two threads call execute_deployment, one on "wd" and one on "wd2"
CallConcurrently ==
  \E aa1 \in BOOLEAN, dr1 \in BOOLEAN, g1 \in Generations,
     aa2 \in BOOLEAN, dr2 \in BOOLEAN, g2 \in Generations :
    /\ pc = "idle"
    /\ other.pc = "idle"
    /\ ncalls + 2 <= MaxCalls
    /\ ncalls' = ncalls + 2
    /\ Resume(EnteredExecuteDeployment("wd", aa1, dr1, g1))
    /\ other' = EnteredExecuteDeployment("wd2", aa2, dr2, g2)
    /\ UNCHANGED <<turn_vars, orchestrator_vars, decision_vars, agent_working_dir, timeout_seconds,
                   dirs, planSeq, stages, agent_ret>>

\* the scheduler lets the other thread take the next steps; a thread that
\* has its result hands it to its caller first, which touches nothing shared
SwitchThread ==
  /\ other.entry = "execute_deployment"
  /\ pc # "exec_done"
  /\ other' = RunningCall
  /\ Resume(other)
  /\ UNCHANGED <<turn_vars, orchestrator_vars, decision_vars, agent_working_dir, timeout_seconds,
                 dirs, planSeq, ncalls, stages, agent_ret>>

NextConc ==
  \/ CallConcurrently
  \/ SwitchThread
  \/ WriteTerraformFiles
  \/ TerraformInit
  \/ TerraformPlan
  \/ RequestApproval
  \/ TerraformApply
  \/ ParseOutputs
  \/ ReturnToCaller

SpecConc == Init /\ [][NextConc]_vars

\* -------------------------------------------------------- DecisionEngine
\* Money is counted in units of 0.00001 USD where the code computes with
\* floats, and in cents once round(x, 2) was applied.
Sizes == {"small", "medium", "large"}

INSTANCE_TYPES_CPU ==
  [ small  |-> [driver |-> "Standard_D4s_v5", worker |-> "Standard_D4s_v5"],
    medium |-> [driver |-> "Standard_DS4_v2", worker |-> "Standard_DS4_v2"],
    large  |-> [driver |-> "Standard_DS5_v2", worker |-> "Standard_DS5_v2"] ]

INSTANCE_TYPES_GPU ==
  [ small  |-> [driver |-> "Standard_DS3_v2", worker |-> "Standard_NC6s_v3"],
    medium |-> [driver |-> "Standard_DS4_v2", worker |-> "Standard_NC12s_v3"],
    large  |-> [driver |-> "Standard_DS5_v2", worker |-> "Standard_NC24s_v3"] ]

DATABRICKS_SKU_MAP ==
  [dev |-> "standard", staging |-> "standard", prod |-> "premium"]

SPARK_VERSIONS ==
  [ cpu     |-> "13.3.x-scala2.12",
    gpu     |-> "13.3.x-gpu-ml-scala2.12",
    default |-> "13.3.x-scala2.12" ]

CLUSTER_CONFIG ==
  [ dev     |-> [min_workers |-> 1, max_workers |-> 2,
                 autotermination_minutes |-> 10],
    staging |-> [min_workers |-> 1, max_workers |-> 3,
                 autotermination_minutes |-> 10],
    prod    |-> [min_workers |-> 1, max_workers |-> 4,
                 autotermination_minutes |-> 10] ]

\* USD per hour, in thousandths
VM_COSTS_PER_HOUR ==
  [ Standard_DS3_v2   |-> 192,
    Standard_DS4_v2   |-> 384,
    Standard_DS5_v2   |-> 768,
    Standard_NC6s_v3  |-> 3060,
    Standard_NC12s_v3 |-> 6120,
    Standard_NC24s_v3 |-> 12240 ]

\* USD per DBU hour, in hundredths
DBU_COSTS_PER_HOUR == [standard |-> 15, premium |-> 20]

\* DBU per hour, in hundredths
DBU_PER_VM_SIZE ==
  [ Standard_DS3_v2   |-> 75,
    Standard_DS4_v2   |-> 150,
    Standard_DS5_v2   |-> 300,
    Standard_NC6s_v3  |-> 200,
    Standard_NC12s_v3 |-> 400,
    Standard_NC24s_v3 |-> 800 ]

\* the default of the argument hours_per_month
HoursPerMonth == 730

\* variant: the CPU catalog is used whatever enable_gpu says
get_instance_types_IgnoresGpu(enable_gpu, size) ==
  IF size \in DOMAIN INSTANCE_TYPES_CPU
  THEN INSTANCE_TYPES_CPU[size]
  ELSE INSTANCE_TYPES_CPU["medium"]

\* Config.get_instance_types
get_instance_types(enable_gpu, size) ==
  IF enable_gpu
  THEN GetDefault(INSTANCE_TYPES_GPU, size, INSTANCE_TYPES_GPU["medium"])
  ELSE GetDefault(INSTANCE_TYPES_CPU, size, INSTANCE_TYPES_CPU["medium"])

\* The code computes with doubles.  An amount x (exact, in units of
\* 0.00001) that lies on the middle between two cents is held as a double
\* that lies on the middle or beside it, depending on the roundings of the
\* products and sums that gave it.  For the instance catalog, the three
\* cluster configurations and the two SKUs these are all such amounts: the
\* doubles of AboveTie lie above the middle, those of BelowTie lie below it
\* or on it with an even cent below.
AboveTie == {35587500, 220056500, 287508500}
BelowTie == {19162500, 24637500, 30112500, 57487500, 73912500, 90262500,
             175599500, 226188500, 348828500}

\* round(x, 2) of the double for the amount x, as the set of cents it can
\* give: one value, except on a middle that is in neither set above
Round2(x) ==
  LET cents == x \div 1000
      rest  == x % 1000
  IN IF rest < 500 THEN {cents}
     ELSE IF rest > 500 THEN {cents + 1}
     ELSE IF x \in AboveTie THEN {cents + 1}
     ELSE IF x \in BelowTie THEN {cents}
     ELSE {cents, cents + 1}

\* Config.estimate_monthly_cost with hours_per_month and utilization_factor
\* at their defaults (730 and 0.5): the cost breakdowns it can return
estimate_monthly_cost(worker_instance_type, driver_instance_type, min_workers, max_workers, databricks_sku) ==
  LET \* avg_workers = (min_workers + max_workers) / 2 * 0.5, times four
      workers4 == min_workers + max_workers
      dbu_rate == GetDefault(DBU_COSTS_PER_HOUR, databricks_sku, 15)
      worker_vm_cost ==
        GetDefault(VM_COSTS_PER_HOUR, worker_instance_type, 500)
          * workers4 * HoursPerMonth * 25
      driver_vm_cost ==
        GetDefault(VM_COSTS_PER_HOUR, driver_instance_type, 200)
          * HoursPerMonth * 100
      total_vm_cost == worker_vm_cost + driver_vm_cost
      worker_dbu_cost ==
        (GetDefault(DBU_PER_VM_SIZE, worker_instance_type, 100)
           * dbu_rate * workers4 * HoursPerMonth * 10) \div 4
      driver_dbu_cost ==
        GetDefault(DBU_PER_VM_SIZE, driver_instance_type, 75)
          * dbu_rate * HoursPerMonth * 10
      total_dbu_cost == worker_dbu_cost + driver_dbu_cost
      storage_cost == 200 * 100000
      total_cost == total_vm_cost + total_dbu_cost + storage_cost
  IN
  { [compute |-> c, databricks_dbu |-> d, storage |-> st, total |-> t] :
      c \in Round2(total_vm_cost), d \in Round2(total_dbu_cost),
      st \in Round2(storage_cost), t \in Round2(total_cost) }

\* _determine_instance_size
determine_instance_size(r) == "small"

\* _downgrade_instance_size
downgrade_instance_size(current_size) ==
  LET size_hierarchy == <<"large", "medium", "small">>
      \* list.index is zero-based
      current_index ==
        IF \E i \in 1..Len(size_hierarchy) : size_hierarchy[i] = current_size
        THEN (CHOOSE i \in 1..Len(size_hierarchy) :
                size_hierarchy[i] = current_size) - 1
        ELSE 1
      new_index == IF current_index + 1 < Len(size_hierarchy) - 1
                   THEN current_index + 1
                   ELSE Len(size_hierarchy) - 1
  IN size_hierarchy[new_index + 1]

\* variant: an unmapped environment gets the premium SKU
DatabricksSku_DefaultPremium(environment) ==
  GetDefault(DATABRICKS_SKU_MAP, environment, "premium")

\* Config.DATABRICKS_SKU_MAP.get(request.environment, "standard")
DatabricksSku(environment) ==
  GetDefault(DATABRICKS_SKU_MAP, environment, "standard")

\* the requests a caller may pass: cost_limit is None or an amount in USD
Environments  == {"dev", "staging", "prod", "qa"}
WorkloadTypes == {"data_engineering", "ml", "analytics"}
CostLimits    == {None, Some(0), Some(500), Some(2500), Some(5000)}

InfrastructureRequests ==
  [ workspace_name : {"ws"}, environment : Environments,
    enable_gpu : BOOLEAN, workload_type : WorkloadTypes,
    cost_limit : CostLimits ]

\* make_decision up to the first cost estimate: the size, the instance
\* types, the SKU, the cluster configuration, the Spark version
CallMakeDecision ==
  /\ engine.pc = "idle"
  /\ \E r \in InfrastructureRequests :
       LET size == determine_instance_size(r) IN
       engine' =
         [ pc             |-> "estimate",
           request        |-> Some(r),
           size           |-> size,
           first_size     |-> size,
           instance_types |-> Some(get_instance_types(r.enable_gpu, size)),
           databricks_sku |-> DatabricksSku(r.environment),
           cluster_config |-> Some(GetDefault(CLUSTER_CONFIG, r.environment,
                                              CLUSTER_CONFIG["dev"])),
           spark_version  |-> IF r.enable_gpu THEN SPARK_VERSIONS["gpu"]
                              ELSE SPARK_VERSIONS["cpu"],
           cost_breakdown |-> None,
           evaluations    |-> 0,
           downgrades     |-> 0 ]
  /\ UNCHANGED <<decision_ret, downgraded, orchestrator_vars, other, turn_vars, vars_executor>>

\* variant: the limit is checked again after every estimate
AfterEstimate_Rechecks(evaluations) == "check_limit"

\* where make_decision goes on after its evaluations-th cost estimate: the
\* first is followed by the check of the limit, the second by the decision
AfterEstimate(evaluations) ==
  IF evaluations = 1 THEN "check_limit" ELSE "decide"

\* Config.estimate_monthly_cost(...) and estimated_monthly_cost
EstimateCost ==
  /\ engine.pc = "estimate"
  /\ \E cb \in estimate_monthly_cost(engine.instance_types[1].worker,
                                     engine.instance_types[1].driver,
                                     engine.cluster_config[1].min_workers,
                                     engine.cluster_config[1].max_workers,
                                     engine.databricks_sku) :
       engine' = [engine EXCEPT
                    !.cost_breakdown = Some(cb),
                    !.evaluations = @ + 1,
                    !.pc = AfterEstimate(engine.evaluations + 1)]
  /\ UNCHANGED <<decision_ret, downgraded, orchestrator_vars, other, turn_vars, vars_executor>>

\* request.cost_limit and estimated_monthly_cost > request.cost_limit, the
\* estimate being in cents
ExceedsLimit(r, estimated_monthly_cost) ==
  /\ r.cost_limit # None
  /\ r.cost_limit[1] # 0
  /\ estimated_monthly_cost > r.cost_limit[1] * 100

\* the check of the cost limit and, when it is exceeded, the downgrade of
\* the size and of the instance types
CheckCostLimit ==
  /\ engine.pc = "check_limit"
  /\ IF ExceedsLimit(engine.request[1], engine.cost_breakdown[1].total)
     THEN LET size == downgrade_instance_size(engine.size) IN
          engine' = [engine EXCEPT
                       !.size = size,
                       !.instance_types = Some(get_instance_types(
                           engine.request[1].enable_gpu, size)),
                       !.downgrades = @ + 1,
                       !.pc = "estimate"]
     ELSE engine' = [engine EXCEPT !.pc = "decide"]
  /\ UNCHANGED <<decision_ret, downgraded, orchestrator_vars, other, turn_vars, vars_executor>>

\* _generate_justification, as the kinds of its sentences
generate_justification(r, estimated_monthly_cost) ==
  << IF r.environment = "prod" THEN "Production environment requires"
     ELSE "environment uses",
     IF r.enable_gpu THEN "GPU instances" ELSE "CPU instances",
     IF r.cost_limit # None /\ r.cost_limit[1] # 0
     THEN IF estimated_monthly_cost <= r.cost_limit[1] * 100
          THEN "Configuration within budget constraint"
          ELSE "Configuration optimized to approach budget limit"
     ELSE "Estimated monthly cost" >>

\* the InfrastructureDecision that make_decision builds from its locals e
InfrastructureDecision(e) ==
  [ workspace_name          |-> e.request[1].workspace_name,
    resource_group_name     |-> <<"rg-", e.request[1].workspace_name>>,
    databricks_sku          |-> e.databricks_sku,
    min_workers             |-> e.cluster_config[1].min_workers,
    max_workers             |-> e.cluster_config[1].max_workers,
    driver_instance_type    |-> e.instance_types[1].driver,
    worker_instance_type    |-> e.instance_types[1].worker,
    spark_version           |-> e.spark_version,
    autotermination_minutes |-> e.cluster_config[1].autotermination_minutes,
    enable_gpu              |-> e.request[1].enable_gpu,
    estimated_monthly_cost  |-> e.cost_breakdown[1].total,
    cost_breakdown          |-> e.cost_breakdown[1],
    justification           |-> generate_justification(
                                  e.request[1], e.cost_breakdown[1].total) ]

\* the justification, the resource group name, the decision, the return
Decide ==
  /\ engine.pc = "decide"
  /\ decision_ret' = Some(InfrastructureDecision(engine))
  /\ engine' = [engine EXCEPT !.pc = "done"]
  /\ UNCHANGED <<downgraded, orchestrator_vars, other, turn_vars, vars_executor>>

\* the caller has the decision
ReturnDecision ==
  /\ engine.pc = "done"
  /\ engine' = IdleEngine
  /\ decision_ret' = None
  /\ UNCHANGED <<downgraded, orchestrator_vars, other, turn_vars, vars_executor>>

\* _downgrade_instance_size called on its own
CallDowngradeInstanceSize ==
  /\ engine.pc = "idle"
  /\ \E current_size \in Sizes \cup {"xlarge"} :
       downgraded' = Some(<<current_size, downgrade_instance_size(current_size)>>)
  /\ UNCHANGED <<engine, decision_ret, orchestrator_vars, other, turn_vars, vars_executor>>

NextDecision ==
  \/ CallMakeDecision
  \/ EstimateCost
  \/ CheckCostLimit
  \/ Decide
  \/ ReturnDecision
  \/ CallDowngradeInstanceSize

SpecDecision == Init /\ [][NextDecision]_vars

\* make_decision is straight-line code: once called it keeps running
SpecDecisionFair ==
  Init /\ [][NextDecision]_vars
       /\ WF_vars(EstimateCost) /\ WF_vars(CheckCostLimit) /\ WF_vars(Decide)

\* ====================================================== properties
\* the sub-command of an invocation: init, plan, apply, output, destroy
Name(c) == c.command[2]

Invoked(name) == \E i \in 1..Len(cmds) : Name(cmds[i]) = name

\* the running call is a deployment (directly or through the agent)
DeployCall == entry \in {"execute_deployment", "provision_workspace"}

\* the running call is a destroy (directly or through the agent)
DestroyCall == entry \in {"destroy_deployment", "destroy_workspace"}

\* the DeploymentResults handed back in the running call
ExecResults  == {exec_ret[i] : i \in 1..Len(exec_ret)}
AgentResults == {agent_ret[i] : i \in 1..Len(agent_ret)}

C2_SequentialAfterSuccess ==
  DeployCall =>
    /\ Len(cmds) <= 4
    /\ \A i \in 1..Len(cmds) :
         /\ Name(cmds[i]) = <<"init", "plan", "apply", "output">>[i]
         /\ i > 1 => cmds[i - 1].outcome = "exit0"

\* C2 witness: all four commands ran
C2_Witness ==
  /\ DeployCall
  /\ Len(cmds) = 4
  /\ cmds[4].outcome = "exit0"

\* C3: the plan an apply acts on is the tfplan the plan command of the same
\* call wrote: its text is the one held as terraform_plan, shown at the gate
\* and returned; no other plan was computed and the file was not rewritten.
C3_ApplyUsesCachedPlan ==
  \A i \in 1..Len(cmds) :
    Name(cmds[i]) = "apply" =>
      /\ cmds[i].plan # None
      /\ \E j \in 1..(i - 1) :
           /\ Name(cmds[j]) = "plan"
           /\ cmds[j].outcome = "exit0"
           /\ cmds[j].plan = cmds[i].plan
      /\ planSeq = cmds[i].plan[1]
      /\ pc # "agent_done" => dirs[cur_dir].tfplan = cmds[i].plan
      /\ terraform_plan = Some(PlanText(cmds[i].plan[1]))
      /\ ~auto_approve => shown = terraform_plan
      /\ \A r \in ExecResults :
           r.terraform_plan # None => r.terraform_plan = terraform_plan

\* C3 witness: an apply in a directory that held the tfplan of an earlier call
C3_Witness ==
  /\ ncalls = 2
  /\ cur_dir = "wd"
  /\ Len(cmds) >= 3
  /\ Name(cmds[3]) = "apply"
  /\ cmds[3].plan = Some(2)
  /\ shown # None

\* C4: with dry_run the gate, the apply command and the output query are
\* never reached, and when init and plan exited 0 the result is a success
\* carrying the plan text and no workspace_url, whatever auto_approve is.
C4_DryRunStopsAfterPlan ==
  DeployCall /\ dry_run =>
    /\ ~Invoked("apply")
    /\ ~Invoked("output")
    /\ prompts = 0
    /\ shown = None
    /\ Len(cmds) = 2 /\ cmds[1].outcome = "exit0" /\ cmds[2].outcome = "exit0"
         => /\ exec_ret # None
            /\ exec_ret[1].success
            /\ exec_ret[1].terraform_plan = Some(PlanText(cmds[2].plan[1]))
            /\ exec_ret[1].workspace_url = None

\* C4 witness: a dry run with auto_approve set ended after a good plan
C4_Witness ==
  /\ entry = "execute_deployment"
  /\ dry_run
  /\ auto_approve
  /\ pc = "exec_done"
  /\ Len(cmds) = 2
  /\ cmds[2].outcome = "exit0"

\* the lines that decline at the gate of execute_deployment
Declines == {"no", "No"}

\* C5: when the human declines at the gate, the result is a failure with
\* the cancellation message, the plan text is retained and apply is never
\* invoked.
C5_DeclineCancels ==
  DeployCall /\ ~auto_approve /\ ~dry_run /\ last_input \in Declines =>
    /\ exec_ret # None
    /\ ~exec_ret[1].success
    /\ exec_ret[1].error_message = Some(<<"Deployment cancelled by user">>)
    /\ exec_ret[1].terraform_plan = Some(PlanText(cmds[2].plan[1]))
    /\ ~Invoked("apply")
    /\ Len(cmds) = 2

\* C5 witness: a decline after an unrecognized answer
C5_Witness ==
  /\ entry = "execute_deployment"
  /\ pc = "exec_done"
  /\ prompts = 2
  /\ last_input = "No"

\* an error_message that names a timeout
IdentifiesTimeout(msg) ==
  \/ msg[1] = "Terraform command timeout after "
  \/ \E i \in 1..Len(msg) : msg[i] = TimeoutExpired.text

EveryCommandBounded ==
  \A i \in 1..Len(cmds) : cmds[i].timeout = Some(timeout_seconds)

TimedOut(names) ==
  \E i \in 1..Len(cmds) : cmds[i].outcome = "timeout" /\ Name(cmds[i]) \in names

TimeoutFailure(r) ==
  /\ ~r.success
  /\ r.error_message # None
  /\ IdentifiesTimeout(r.error_message[1])
  /\ r.terraform_outputs = None

\* C6 as stated: every invocation runs under the executor's timeout, and a
\* timeout of init, plan, apply, the output query or destroy ends the call
\* with a failure that names the timeout and carries no outputs.
C6_AnyTimeoutFails ==
  /\ EveryCommandBounded
  /\ TimedOut({"init", "plan", "apply", "output", "destroy"})
       => \A r \in ExecResults : TimeoutFailure(r)

\* C6 amended: every invocation runs under the executor's timeout; a timeout
\* of init, plan, apply or destroy ends the call with a failure that names
\* the timeout and carries no outputs, while a timeout of the output query
\* is absorbed: the call succeeds with an empty terraform_outputs.
C6_TimeoutFailsExceptOutputQuery ==
  /\ EveryCommandBounded
  /\ timeout_seconds > 0
  /\ TimedOut({"init", "plan", "apply", "destroy"})
       => /\ exec_ret # None
          /\ TimeoutFailure(exec_ret[1])
  /\ TimedOut({"output"})
       => /\ exec_ret # None
          /\ exec_ret[1].success
          /\ exec_ret[1].terraform_outputs = Some(<<>>)

\* C6 witness: the apply command timed out under the default timeout
C6_Witness ==
  /\ pc = "exec_done"
  /\ timeout_seconds = TERRAFORM_TIMEOUT_SECONDS
  /\ Len(cmds) = 3
  /\ cmds[3].outcome = "timeout"

\* the output query of invocation c did not yield an object of outputs
ParseFailed(c) ==
  /\ Name(c) = "output"
  /\ \/ c.outcome # "exit0"
     \/ c.stdout[1].kind # "object"

\* C7: once apply exited 0, a failing output step (non-zero exit, text that
\* is no JSON, a document that cannot be read as outputs) still gives a
\* success whose terraform_outputs is the empty mapping.
C7_ParseFailureIsNotFatal ==
  \A i \in 1..Len(cmds) :
    ParseFailed(cmds[i]) /\ i > 1 /\ cmds[i - 1].outcome = "exit0" =>
      /\ exec_ret # None
      /\ exec_ret[1].success
      /\ exec_ret[1].terraform_outputs = Some(<<>>)
      /\ exec_ret[1].error_message = None

\* C7 witness: the output query printed a JSON array
C7_Witness ==
  /\ pc = "exec_done"
  /\ Len(cmds) = 4
  /\ cmds[4].outcome = "exit0"
  /\ cmds[4].stdout = Some(ArrayDoc)

\* C8: in every result of the executor and of the agent, error_message is
\* set exactly when success is false.
C8_ErrorMessageIffFailure ==
  \A r \in ExecResults \cup AgentResults :
    (r.error_message # None) <=> ~r.success

\* C8 witness: the agent returned the failure of a plan that exited non-zero
C8_Witness ==
  /\ pc = "agent_done"
  /\ entry = "provision_workspace"
  /\ Len(cmds) = 2
  /\ cmds[2].outcome = "nonzero"
  /\ agent_ret # None
  /\ ~agent_ret[1].success

WellKnownKeys ==
  {"workspace_url", "workspace_id", "resource_group_name", "instance_pool_id"}

\* C9: the four workspace fields and terraform_outputs are set only in a
\* result of a call whose apply exited 0; there terraform_outputs is a
\* mapping and each field is its value for the key of the same name, unset
\* when the key is absent.
C9_FieldsMirrorOutputs ==
  \A r \in ExecResults \cup AgentResults :
    /\ (r.terraform_outputs # None \/ \E k \in WellKnownKeys : r[k] # None)
         => /\ \E i \in 1..Len(cmds) :
                 Name(cmds[i]) = "apply" /\ cmds[i].outcome = "exit0"
            /\ r.terraform_outputs # None
    /\ r.terraform_outputs # None
         => \A k \in WellKnownKeys :
              r[k] = IF k \in DOMAIN r.terraform_outputs[1]
                     THEN Some(r.terraform_outputs[1][k])
                     ELSE None
    /\ r.firewall_ip = None

\* C9 witness: outputs with workspace_url and workspace_id but no pool
C9_Witness ==
  /\ pc = "exec_done"
  /\ exec_ret # None
  /\ exec_ret[1].success
  /\ exec_ret[1].workspace_url = Some("adb-1")
  /\ exec_ret[1].workspace_id = Some("adb-1")
  /\ exec_ret[1].instance_pool_id = None
  /\ exec_ret[1].terraform_outputs # None

\* C10: within one call no command is invoked twice; a failed command is
\* never run again.
C10_NoRetry ==
  \A i, j \in 1..Len(cmds) : i < j => Name(cmds[i]) # Name(cmds[j])

\* C10 witness: a deployment whose apply exited non-zero has ended
C10_Witness ==
  /\ pc = "exec_done"
  /\ DeployCall
  /\ Len(cmds) = 3
  /\ cmds[3].outcome = "nonzero"

\* the error stream of command is part of the message msg
ContainsStderr(msg, command) ==
  \E i \in 1..Len(msg) : msg[i] = "stderr of " \o command[2]

\* C11: destroy_deployment invokes neither init nor plan and writes no file;
\* with auto_approve it invokes exactly one command, terraform destroy
\* -auto-approve, whose non-zero exit gives success=false with the command's
\* error stream in error_message.
C11_DestroyRunsOnlyDestroy ==
  /\ [](DestroyCall =>
          /\ Len(cmds) <= 1
          /\ \A i \in 1..Len(cmds) :
               cmds[i].command = <<"terraform", "destroy", "-auto-approve">>
          /\ auto_approve /\ pc \in {"exec_done", "agent_done"}
               => /\ Len(cmds) = 1
                  /\ cmds[1].outcome = "nonzero"
                       => /\ exec_ret # None
                          /\ ~exec_ret[1].success
                          /\ exec_ret[1].error_message # None
                          /\ ContainsStderr(exec_ret[1].error_message[1],
                                            cmds[1].command))
  /\ [][DestroyCall => dirs' = dirs]_vars

\* C11 witness: an auto-approved destroy exited non-zero in a directory that
\* holds the files of an earlier deployment
C11_Witness ==
  /\ entry = "destroy_deployment"
  /\ auto_approve
  /\ pc = "exec_done"
  /\ Len(cmds) = 1
  /\ cmds[1].outcome = "nonzero"
  /\ dirs["wd"].files["main.tf"] # None

\* the lines that approve at a gate
Approves == {"yes", " YES "}

\* the destroy gate has read at least one line
DestroyGateAnswered == DestroyCall /\ ~auto_approve /\ prompts > 0

DestroyCancelled ==
  /\ exec_ret # None
  /\ ~exec_ret[1].success
  /\ exec_ret[1].error_message = Some(<<"Destroy cancelled by user">>)
  /\ cmds = <<>>

\* C12 as stated: the destroy gate decides as the gate of the apply workflow:
\* the command runs only after a 'yes', a 'no' gives a cancelled result with
\* no command invoked, and an unrecognized line leaves the gate prompting.
C12_DestroyGateMirrorsApplyGate ==
  DestroyGateAnswered =>
    /\ (pc = "destroy" \/ Invoked("destroy")) => last_input \in Approves
    /\ last_input \in Approves => pc = "destroy" \/ Invoked("destroy")
    /\ last_input \in Declines => DestroyCancelled
    /\ last_input \notin Approves \cup Declines \cup {EOF}
         => pc = "destroy_approval" /\ exec_ret = None

\* C12 amended: the destroy command runs only after a 'yes' (trimmed,
\* lower-cased) and a 'no' gives a cancelled result with no command invoked,
\* as at the apply gate; but the destroy gate reads a single line and every
\* other line cancels as well, without a second prompt.
C12_DestroyGateSingleAnswer ==
  DestroyGateAnswered =>
    /\ prompts = 1
    /\ (pc = "destroy" \/ Invoked("destroy")) => last_input \in Approves
    /\ last_input \in Approves => pc = "destroy" \/ Invoked("destroy")
    /\ last_input \in Declines => DestroyCancelled
    /\ last_input \notin Approves \cup Declines \cup {EOF} => DestroyCancelled

\* C12 witness: the destroy ran after the answer " YES "
C12_Witness ==
  /\ entry = "destroy_deployment"
  /\ ~auto_approve
  /\ last_input = " YES "
  /\ Len(cmds) = 1
  /\ cmds[1].outcome = "exit0"

\* the order of the stages of provision_workspace
StageOrder ==
  <<"recognize_intent", "make_decision", "generate", "execute_deployment">>

CapabilityCalled(name) == \E i \in 1..Len(cap_calls) : cap_calls[i] = name

\* C14: execute_capability calls capability.execute only if the user
\* approved the plan that was presented; when a plan that requires approval
\* is not approved, the call returns (plan, None) and nothing is executed.
C14_ExecuteOnlyIfApproved ==
  /\ CapabilityCalled("execute") => verdict = "approve"
  /\ (/\ pc = "orch_done"
      /\ plan # None
      /\ verdict = "decline") =>
        /\ plan[1].requires_approval => orch_ret = Some(Returned(<<plan[1], None>>))
        /\ ~CapabilityCalled("execute")

\* C15: the apply that DatabricksCapability.execute runs acts on the
\* Terraform plan that plan() computed and stored in
\* plan.details["terraform_plan"]; no plan is computed between plan() and
\* that apply.
C15_ApplyUsesPresentedPlan ==
  (entry = "execute_capability" /\ Running = "execute") =>
    /\ ~Invoked("plan")
    /\ \A i \in 1..Len(cmds) :
         Name(cmds[i]) = "apply" =>
           /\ cmds[i].plan # None
           /\ PlanText(cmds[i].plan[1]) = plan[1].details.terraform_plan

\* the two threads' locals
Threads == {RunningCall, other}

\* directory d holds exactly the five files of generation g
HoldsFilesOf(d, g) ==
  dirs[d].files =
    [n \in FileNames |-> Some(files_to_write(TerraformFiles(g))[n])]

\* the DeploymentResult a call with locals c, run on its own, returns for
\* the command outcomes and the answers logged in c
AloneResult(c) ==
  LET n    == Len(c.cmds)
      last == c.cmds[n]
      text == Some(PlanText(c.cmds[2].plan[1]))
      exc(e) == ExecuteDeploymentExcept(e).result[1]
  IN
  CASE n = 0 -> exc(OSError)
    [] n > 0 /\ last.outcome \in {"timeout", "exception"}
             /\ Name(last) # "output" -> exc(RunException(last.outcome))
    [] n = 1 -> Failure(<<"terraform init failed: ", Stderr(CmdInit)>>)
    [] n = 2 /\ last.outcome = "nonzero" ->
         [Failure(<<"terraform plan failed: ", Stderr(CmdPlan)>>)
            EXCEPT !.terraform_plan = Some(PlanDiagnostics)]
    [] n = 2 /\ last.outcome = "exit0" /\ c.dry_run ->
         [DeploymentResult(TRUE) EXCEPT !.terraform_plan = text,
                                        !.deployment_time_seconds = Elapsed]
    [] n = 2 /\ last.outcome = "exit0" /\ ~c.dry_run ->
         IF c.last_input = EOF
         THEN exc(EOFError)
         ELSE [Failure(<<"Deployment cancelled by user">>)
                 EXCEPT !.terraform_plan = text]
    [] n = 3 ->
         [Failure(<<"terraform apply failed: ", Stderr(CmdApply)>>)
            EXCEPT !.terraform_plan = text]
    [] n = 4 ->
         LET outputs == IF last.outcome = "exit0"
                           /\ last.stdout[1].kind = "object"
                        THEN [k \in DOMAIN last.stdout[1].members |->
                                ExtractValue(last.stdout[1].members[k])]
                        ELSE <<>>
         IN [DeploymentResult(TRUE) EXCEPT
               !.workspace_url           = Get(outputs, "workspace_url"),
               !.workspace_id            = Get(outputs, "workspace_id"),
               !.resource_group_name     = Get(outputs, "resource_group_name"),
               !.instance_pool_id        = Get(outputs, "instance_pool_id"),
               !.deployment_time_seconds = Elapsed,
               !.terraform_outputs       = Some(outputs),
               !.terraform_plan          = text]

\* C16: two execute_deployment calls running concurrently on different
\* working directories do not interfere, whatever the interleaving of their
\* steps: the init, plan and apply of each call find in its directory
\* exactly the five files that call wrote, each apply consumes the plan its
\* own plan step computed, and each call returns the result it returns
\* alone for the same command outcomes.
C16_ConcurrentCallsIndependent ==
  \A c \in Threads :
    c.entry = "execute_deployment" =>
      /\ c.pc \in {"init", "plan", "approval", "apply"} =>
           HoldsFilesOf(c.cur_dir, c.tf_gen)
      /\ \A i \in 1..Len(c.cmds) :
           Name(c.cmds[i]) = "apply" =>
             /\ Name(c.cmds[i - 1]) = "plan"
             /\ c.cmds[i - 1].plan # None
             /\ c.cmds[i].plan = c.cmds[i - 1].plan
      /\ c.pc = "exec_done" =>
           /\ c.exec_exc = None
           /\ c.exec_ret = Some(AloneResult(c))

\* C16 witness: the thread on "wd" planned first and has applied its plan
\* after the thread on "wd2" computed a later plan, which is still to be
\* applied; each directory holds its own files and its own plan
C16_Witness ==
  /\ other.entry = "execute_deployment"
  /\ other.pc = "apply"
  /\ cur_dir = "wd"
  /\ pc = "parse_outputs"
  /\ tf_gen # other.tf_gen
  /\ cmds[3].plan = Some(1)
  /\ other.cmds[2].plan = Some(2)
  /\ dirs["wd2"].tfplan = Some(2)
  /\ HoldsFilesOf("wd", tf_gen)
  /\ HoldsFilesOf("wd2", other.tf_gen)

\* the size whose catalog entry gives the worker type of decision d
TierOf(d) ==
  LET catalog == IF d.enable_gpu THEN INSTANCE_TYPES_GPU
                 ELSE INSTANCE_TYPES_CPU
  IN CHOOSE size \in Sizes : catalog[size].worker = d.worker_instance_type

TierRank(size) ==
  CASE size = "small" -> 1 [] size = "medium" -> 2 [] size = "large" -> 3

\* the worker types of the GPU catalog
GpuTypes == {INSTANCE_TYPES_GPU[size].worker : size \in Sizes}

\* the budget rule of a finished make_decision, and of a direct downgrade
DowngradesOnce ==
  /\ engine.evaluations <= 2
  /\ engine.downgrades <= 1
  /\ engine.pc = "done" =>
       /\ decision_ret # None
       /\ engine.evaluations = 1 + engine.downgrades
       /\ engine.downgrades = 1 => engine.request[1].cost_limit # None
       /\ LET tier == TierOf(decision_ret[1]) IN
          /\ TierRank(tier) <= TierRank(engine.first_size)
          /\ (engine.downgrades = 1 /\ engine.first_size # "small") =>
               TierRank(tier) < TierRank(engine.first_size)
  /\ downgraded # None =>
       /\ downgraded[1] = "large"  => downgraded[2] = "medium"
       /\ downgraded[1] = "medium" => downgraded[2] = "small"
       /\ downgraded[1] = "small"  => downgraded[2] = "small"

\* C17: make_decision terminates after at most one downgrade pass and at
\* most two cost evaluations; after a downgrade the tier of the returned
\* decision is strictly smaller than the tier chosen first (large to medium,
\* medium to small) or equal to it when that was small; the decision is
\* returned even when its cost still exceeds cost_limit.
C17_AtMostOneDowngrade ==
  /\ []DowngradesOnce
  /\ (engine.pc # "idle") ~> (engine.pc = "done" /\ decision_ret # None)

\* C17 witness: a decision returned after one downgrade pass and two cost
\* evaluations, whose cost still exceeds the limit
C17_Witness ==
  /\ engine.pc = "done"
  /\ engine.downgrades = 1
  /\ engine.evaluations = 2
  /\ decision_ret # None
  /\ ExceedsLimit(engine.request[1], decision_ret[1].estimated_monthly_cost)

\* C18: in every decision cost_breakdown["total"] is the sum of compute,
\* databricks_dbu and storage as returned (each rounded to cents), and is
\* estimated_monthly_cost.
C18_TotalIsSumOfParts ==
  decision_ret # None =>
    LET d  == decision_ret[1]
        cb == d.cost_breakdown
    IN /\ cb.total = cb.compute + cb.databricks_dbu + cb.storage
       /\ d.estimated_monthly_cost = cb.total

\* C19: with enable_gpu the worker type is a worker type of the GPU catalog
\* and the Spark version is the GPU runtime; without it the worker type is
\* no GPU type and the Spark version is the CPU runtime; the driver type is
\* never a GPU type.  This also holds after a budget downgrade.
C19_GpuConsistency ==
  decision_ret # None =>
    LET d == decision_ret[1]
        r == engine.request[1]
    IN /\ r.enable_gpu =>
            /\ d.worker_instance_type \in GpuTypes
            /\ d.spark_version = SPARK_VERSIONS["gpu"]
       /\ ~r.enable_gpu =>
            /\ d.worker_instance_type \notin GpuTypes
            /\ d.spark_version = SPARK_VERSIONS["cpu"]
       /\ d.driver_instance_type \notin GpuTypes

\* C19 witness: a GPU decision returned after a budget downgrade
C19_Witness ==
  /\ decision_ret # None
  /\ engine.request[1].enable_gpu
  /\ engine.downgrades = 1
  /\ decision_ret[1].worker_instance_type = "Standard_NC6s_v3"

\* C20: databricks_sku is premium for prod and standard for dev and
\* staging; for an environment outside the mapping make_decision returns a
\* decision with the standard SKU and the cluster bounds of dev.
C20_SkuByEnvironment ==
  /\ engine.pc = "done" => decision_ret # None
  /\ decision_ret # None =>
       LET d == decision_ret[1]
           r == engine.request[1]
       IN /\ r.environment = "prod" => d.databricks_sku = "premium"
          /\ r.environment \in {"dev", "staging"} =>
               d.databricks_sku = "standard"
          /\ r.environment \notin DOMAIN DATABRICKS_SKU_MAP =>
               /\ d.databricks_sku = "standard"
               /\ d.min_workers = CLUSTER_CONFIG["dev"].min_workers
               /\ d.max_workers = CLUSTER_CONFIG["dev"].max_workers

\* C20 witness: a decision for the unmapped environment "qa"
C20_Witness ==
  /\ decision_ret # None
  /\ engine.request[1].environment = "qa"
  /\ decision_ret[1].databricks_sku = "standard"

\* C21: the size tier follows the workload type: for the same environment
\* and GPU flag a request with workload_type "ml" gets a worker type of the
\* medium or large tier, a request with workload_type "analytics" one of the
\* small tier.
C21_SizeByWorkload ==
  decision_ret # None =>
    LET r    == engine.request[1]
        tier == TierOf(decision_ret[1])
    IN /\ r.workload_type = "ml" => TierRank(tier) > TierRank("small")
       /\ r.workload_type = "analytics" => tier = "small"

\* C22: in a deployment the init command is invoked only when all five files
\* lie in the working directory, each holding exactly the field of the
\* TerraformFiles passed in; when writing a file failed no command is
\* invoked and a failure result is returned.
C22_FilesWrittenBeforeInit ==
  (DeployCall /\ pc # "agent_done") =>
    /\ (pc = "init" \/ cmds # <<>>) => HoldsFilesOf(cur_dir, tf_gen)
    /\ ~HoldsFilesOf(cur_dir, tf_gen) => cmds = <<>>
    /\ (pc = "exec_done" /\ cmds = <<>>) =>
         /\ exec_ret # None
         /\ ~exec_ret[1].success
         /\ exec_ret[1].error_message # None

\* C22 witness: init is about to run in a directory that held files of an
\* earlier call, and the five files are those of this call
C22_Witness ==
  /\ ncalls = 2
  /\ entry = "execute_deployment"
  /\ pc = "init"
  /\ tf_gen = 2
  /\ dirs[cur_dir].tfplan # None
  /\ HoldsFilesOf(cur_dir, tf_gen)

\* what the plan command c printed on its output stream
PlanStdout(c) ==
  IF c.outcome = "exit0" THEN PlanText(c.plan[1]) ELSE PlanDiagnostics

UnrecognizedReprompts ==
  (/\ pc = "approval"
   /\ last_input' # EOF
   /\ StripLower(last_input') \notin {"yes", "no"})
    => /\ pc' = "approval"
       /\ cmds' = cmds
       /\ exec_ret' = exec_ret
       /\ prompts' = prompts + 1

\* C24: at the gate (auto_approve and dry_run both false) only the answers
\* yes and no, trimmed and lower-cased, decide: apply is invoked only after a
\* yes, any other answer prompts again and invokes no command, and a gate that
\* is answered by yes or no in the end leads to a result.
C24_GateDecidesOnYesNo ==
  /\ []((DeployCall /\ ~auto_approve /\ ~dry_run /\ Invoked("apply")) =>
          StripLower(last_input) = "yes")
  /\ []((DeployCall /\ pc = "exec_done" /\ last_input # ""
           /\ StripLower(last_input) = "no") => ~Invoked("apply"))
  /\ [][UnrecognizedReprompts]_vars
  /\ (pc = "approval") ~> (pc = "exec_done" /\ exec_ret # None)

\* C24 witness: apply was invoked after an unrecognized answer and a yes that
\* needed trimming and lower-casing
C24_Witness ==
  /\ entry = "execute_deployment"
  /\ ~auto_approve
  /\ Invoked("apply")
  /\ prompts = 2
  /\ last_input = " YES "

\* a call of execute_capability with a name that is not registered begins
UnknownCapabilityCalled ==
  /\ request = None
  /\ request' # None
  /\ request'[1].capability_name \notin capabilities

\* C25: execute_capability with a capability name that is not registered
\* raises ValueError before validate, plan or execute of any capability is
\* called, and leaves current_plan and the flags plan_proposed, plan_approved
\* and deployment_complete as they were.
C25_UnknownCapabilityRaises ==
  /\ []((request # None /\ request[1].capability_name \notin capabilities) =>
          /\ cap_calls = <<>>
          /\ cmds = <<>>
          /\ pc = "orch_done"
          /\ orch_ret # None
          /\ orch_ret[1].kind = "raise"
          /\ orch_ret[1].exc[1].type = "ValueError"
          /\ orch_ret[1].exc[1].text[1] = "Unknown capability '")
  /\ [][(UnknownCapabilityCalled \/ (pc = "orch_done" /\ cap_calls = <<>>)) =>
          (state' = state /\ current_plan' = current_plan)]_vars

\* C25 witness: a call with an unregistered name has raised on an
\* orchestrator whose earlier call had proposed and approved a plan
C25_Witness ==
  /\ ncalls = 2
  /\ request # None
  /\ request[1].capability_name = "provision_openai"
  /\ orch_ret # None
  /\ orch_ret[1].kind = "raise"
  /\ state.plan_approved
  /\ current_plan # None

\* C26: for a function call whose arguments have the shape the tool declares
\* (capability_name, parameters), process_message calls execute_capability
\* with that capability_name and with the values of the call's parameters
\* dict for team, environment, region, workspace_name, enable_gpu and
\* workload_type.
C26_ScanPassesDeclaredArguments ==
  (turn.pc = "scan" /\ request # None) =>
    LET args == CurrentCall IN
    (DOMAIN args = {"capability_name", "parameters"}) =>
      /\ request[1].capability_name = args.capability_name
      /\ \A k \in DOMAIN args.parameters :
           request[1].parameters[k] = args.parameters[k]

\* C27: every result that execute_deployment returns after the plan command
\* exited 0 carries the text of that plan in terraform_plan, whatever ended
\* the workflow afterwards.
C27_PlanTextAlwaysReturned ==
  (/\ DeployCall
   /\ pc = "exec_done"
   /\ exec_ret # None
   /\ Len(cmds) >= 2
   /\ cmds[2].outcome = "exit0") =>
     exec_ret[1].terraform_plan = Some(PlanText(cmds[2].plan[1]))

\* C28: deployment_complete is true only if a capability execution returned
\* a result with success=true since the last reset.
C28_CompleteOnlyAfterSuccess ==
  state.deployment_complete => succeeded

\* C29: through execute_capability, neither DatabricksCapability.execute nor
\* the apply command is reached for a plan whose dry run failed.
C29_NoExecuteAfterFailedPlan ==
  (/\ entry = "execute_capability"
   /\ plan # None
   /\ plan[1].details.terraform_plan = PlanFailed) =>
     /\ ~CapabilityCalled("execute")
     /\ ~Invoked("apply")

\* the capability methods that two runs have in common
RunTwice(methods1, methods2) ==
  { m \in {"plan", "execute"} :
      /\ \E i \in 1..Len(methods1) : methods1[i] = m
      /\ \E i \in 1..Len(methods2) : methods2[i] = m }

====
